---- MODULE Spec2Model ----
(***************************************************************************)
(* Model of the DeepSeek OCR demo: the OCR dispatcher (app/ocr/            *)
(* deepseek_ocr.py) and the HTTP upload endpoints (app/main.py,            *)
(* app/api/routes.py).                                                     *)
(*                                                                         *)
(* Texts are sequences of characters.  Confidences are integers in         *)
(* thousandths (1000 is 1.0, 700 is 0.7, 300 is the EasyOCR floor 0.3).    *)
(* A Python Optional value is a set with at most one element ({} is None). *)
(* A Python dict is a function whose DOMAIN is the set of keys present.    *)
(***************************************************************************)
EXTENDS Integers, Sequences, FiniteSets, TLC

\* ------------------------------------------------------------------------
\* Bounds of the model
\* ------------------------------------------------------------------------

\* most files uploaded in one batch request
MaxFiles == 2

\* longest raw text an engine (local model, Tesseract) hands back
MaxLen == 2

\* most detections EasyOCR reports for one image
MaxDet == 2

\* most image paths handed to one batch_extract_text call
MaxBatch == 2

\* longest answer, in tokens, examined for JSON
MaxJsonLen == 5

\* longest path, in characters, given to validate_file_path
MaxPathLen == 6

\* the number of requests handled at the same time
MaxWorkers == 2

\* longest prompt, in characters, handed to validate_prompt on its own
MaxPromptLen == 3

\* ------------------------------------------------------------------------
\* Input universes
\* ------------------------------------------------------------------------

\* characters of engine output: one printable character and one blank
Chars == {"a", " "}

\* str.strip() removes these (the newline comes from '\n'.join)
Whitespace == {" ", "\n"}

Texts == UNION {[1..n -> Chars] : n \in 0..MaxLen}

\* text of one EasyOCR detection
DetTexts == {<<"a">>, <<"b">>}

\* confidences EasyOCR attaches to a detection (thousandths): at the floor,
\* above it with a third decimal, and high
Confs == {300, 456, 900}

\* the detections EasyOCR reports: "a" read with low or middling
\* confidence, "b" read with high confidence
Detections ==
  {d \in [text : DetTexts, confidence : Confs] :
     (d.text = <<"b">>) <=> (d.confidence = 900)}

DetectionLists == UNION {[1..n -> Detections] : n \in 0..MaxDet}

\* image files a caller can name: one that exists, one that does not
Paths == {"img1", "missing"}

\* pixel size of the image files that exist
ImageSize == <<100, 100>>

\* prompts a direct caller passes: None, or a string
Prompts == {{}, {<<"p">>}}

\* ------------------------------------------------------------------------
\* Program constants
\* ------------------------------------------------------------------------

\* confidence floor of the EasyOCR step
EasyOCRFloor == 300

\* nominal confidence of a Tesseract result
TesseractConfidence == 700

\* confidence of a local-model result
LocalConfidence == 1000

\* confidence of the placeholder, API notice and API error results
ZeroConfidence == 0

\* ImageProcessor._optimize_size enlarges images below this size
MinSize == 1000

\* OCRConfig.max_image_size
MaxImageSize == 4096

DefaultPrompt == <<"Extract all text from this image.">>

\* PerformanceConfig.batch_size
DefaultBatchSize == 1

\* ServerConfig.port, and the range _validate_config accepts
DefaultPort == 5000

MinPort == 1

MaxPort == 65535

\* ModelConfig.local_path
DefaultLocalPath == "./models/deepseek-vl-7b-chat"

\* UploadConfig.max_file_size, also Flask's MAX_CONTENT_LENGTH (bytes)
MaxFileSize == 52428800

\* the bytes _is_valid_mime_type reads to look at the header
HeaderBytes == 1024

\* UploadConfig.allowed_extensions
AllowedExtensions == {"jpg", "jpeg", "png", "bmp", "tiff", "pdf", "webp", "gif"}

\* validate_prompt: default max_length, and the one of /ocr/structured
PromptMaxLength == 1000

StructurePromptMaxLength == 2000

\* ------------------------------------------------------------------------
\* String helpers (Python str methods)
\* ------------------------------------------------------------------------

RECURSIVE LStrip(_)
LStrip(s) ==
  IF s = <<>> THEN <<>>
  ELSE IF Head(s) \in Whitespace THEN LStrip(Tail(s)) ELSE s

RECURSIVE RStrip(_)
RStrip(s) ==
  IF s = <<>> THEN <<>>
  ELSE IF s[Len(s)] \in Whitespace THEN RStrip(SubSeq(s, 1, Len(s) - 1)) ELSE s

\* str.strip()
Strip(s) == RStrip(LStrip(s))

\* '\n'.join(parts)
RECURSIVE JoinLines(_)
JoinLines(parts) ==
  IF parts = <<>> THEN <<>>
  ELSE IF Len(parts) = 1 THEN parts[1]
  ELSE parts[1] \o <<"\n">> \o JoinLines(Tail(parts))

Max2(a, b) == IF a >= b THEN a ELSE b

\* ------------------------------------------------------------------------
\* Images (app/utils/image_processor.py)
\* ------------------------------------------------------------------------

\* ImageProcessor._resize_image: shrink to max_size, keeping the aspect ratio
ResizeImage(size, max_size) ==
  LET width == size[1]
      height == size[2]
  IN IF Max2(width, height) <= max_size THEN size
     ELSE IF width > height
          THEN <<max_size, (height * max_size) \div width>>
          ELSE <<(width * max_size) \div height, max_size>>

\* ImageProcessor._optimize_size: enlarge an image smaller than min_size
OptimizeSize(size) ==
  LET width == size[1]
      height == size[2]
      m == Max2(width, height)
  IN IF m < MinSize
     THEN <<(width * MinSize) \div m, (height * MinSize) \div m>>
     ELSE size

\* ImageProcessor.load_image, the image it returns for a readable file:
\* converted to RGB and resized when larger than max_image_size
LoadedImage(size) ==
  [size |-> IF Max2(size[1], size[2]) > MaxImageSize
            THEN ResizeImage(size, MaxImageSize) ELSE size,
   mode |-> "RGB"]

\* ImageProcessor.preprocess_image, the image it returns when no step fails
\* (contrast enhancement and denoising keep the size)
PreprocessedImage(image, cfg) ==
  [image EXCEPT !.size = IF cfg.pre_resize THEN OptimizeSize(@) ELSE @]

\* ------------------------------------------------------------------------
\* Results of the extraction steps (app/ocr/deepseek_ocr.py)
\* ------------------------------------------------------------------------

MethodOrder == <<"deepseek_local", "deepseek_api", "easyocr", "tesseract", "demo_mode">>

\* _extract_text_local, the dict it returns for the decoded response
LocalResult(response) ==
  [text |-> Strip(response),
   confidence |-> LocalConfidence,
   method |-> "deepseek_local"]

\* the placeholder text of _extract_text_demo (already stripped: it starts
\* and ends with a printable character)
DemoText(image) ==
  <<"OCR Processing Failed", "\n", "Dimensions: ",
    ToString(image.size[1]), " x ", ToString(image.size[2]), " pixels",
    "\n", "Color mode: ", image.mode, "\n", "Attempted Methods">>

\* a placeholder result tagged with a name outside the engine tags
DemoResult_OtherTag(image) ==
  [text |-> Strip(DemoText(image)),
   confidence |-> ZeroConfidence,
   method |-> "placeholder",
   warning |-> "Demo mode active"]

\* _extract_text_demo
DemoResult(image) ==
  [text |-> Strip(DemoText(image)),
   confidence |-> ZeroConfidence,
   method |-> "demo_mode",
   warning |-> "Demo mode active"]

\* _extract_text_api, the notice its try block returns
ApiLimitationResult(image, prompt) ==
  [text |-> <<"API Limitation Notice:", "\n", "Original prompt: ">> \o prompt
            \o <<"\n", "Image size: ", ToString(image.size[1]), ToString(image.size[2])>>,
   confidence |-> ZeroConfidence,
   method |-> "api_limitation",
   warning |-> "DeepSeek API does not currently support image processing"]

\* _extract_text_api, the dict its except block returns
ApiErrorResult ==
  [text |-> <<"API Error: ", "e", "\n", "\n", "Please use local model for image processing.">>,
   confidence |-> ZeroConfidence,
   method |-> "api_error",
   error |-> "e"]

\* the prompt a step works with: the caller's, or the default when None
EffectivePrompt(prompt) ==
  IF prompt = {} THEN DefaultPrompt ELSE CHOOSE p \in prompt : TRUE

\* a filter that also accepts a detection exactly at the floor
RECURSIVE AcceptedDetections_AtFloor(_)
AcceptedDetections_AtFloor(results) ==
  IF results = <<>> THEN <<>>
  ELSE IF Head(results).confidence >= EasyOCRFloor
       THEN <<Head(results)>> \o AcceptedDetections_AtFloor(Tail(results))
       ELSE AcceptedDetections_AtFloor(Tail(results))

\* EasyOCR: the detections above the confidence floor, in detection order
RECURSIVE AcceptedDetections(_)
AcceptedDetections(results) ==
  IF results = <<>> THEN <<>>
  ELSE IF Head(results).confidence > EasyOCRFloor
       THEN <<Head(results)>> \o AcceptedDetections(Tail(results))
       ELSE AcceptedDetections(Tail(results))

RECURSIVE SumConfidence(_)
SumConfidence(dets) ==
  IF dets = <<>> THEN 0 ELSE Head(dets).confidence + SumConfidence(Tail(dets))

\* round(total / n, 2) in thousandths: the nearest multiple of 10, a tie
\* going to the even hundredth
Round2(total, n) ==
  LET q == total \div (10 * n)
      r == total % (10 * n)
  IN IF 2 * r < 10 * n THEN 10 * q
     ELSE IF 2 * r > 10 * n THEN 10 * (q + 1)
     ELSE IF q % 2 = 0 THEN 10 * q ELSE 10 * (q + 1)

\* the EasyOCR branch of _extract_text_fallback for accepted detections
EasyOCRResult(accepted) ==
  LET text_parts == [i \in 1..Len(accepted) |-> accepted[i].text]
      valid_results == Len(accepted)
  IN [text |-> Strip(JoinLines(text_parts)),
      confidence |-> IF valid_results > 0
                     THEN Round2(SumConfidence(accepted), valid_results)
                     ELSE 0,
      method |-> "easyocr_fallback",
      segments_found |-> Len(text_parts)]

\* mutant: the Tesseract output is returned without strip()
TesseractResult_Unstripped(extracted_text) ==
  [text |-> extracted_text,
   confidence |-> TesseractConfidence,
   method |-> "tesseract_fallback",
   character_count |-> Len(Strip(extracted_text))]

\* a Tesseract branch that reports the confidence of the local model
TesseractResult_FullConfidence(extracted_text) ==
  [text |-> Strip(extracted_text),
   confidence |-> LocalConfidence,
   method |-> "tesseract_fallback",
   character_count |-> Len(Strip(extracted_text))]

\* the Tesseract branch of _extract_text_fallback for a non-blank output
TesseractResult(extracted_text) ==
  [text |-> Strip(extracted_text),
   confidence |-> TesseractConfidence,
   method |-> "tesseract_fallback",
   character_count |-> Len(Strip(extracted_text))]

\* result.update({...}) at the end of extract_text
WithMetadata(result, image_path, image, cfg) ==
  [k \in DOMAIN result \cup {"image_path", "image_size", "processing_method"} |->
     IF k = "image_path" THEN image_path
     ELSE IF k = "image_size" THEN image.size
     ELSE IF k = "processing_method"
          THEN (IF cfg.use_local THEN "local" ELSE "api")
     ELSE result[k]]

\* ------------------------------------------------------------------------
\* State
\* ------------------------------------------------------------------------

VARIABLES
  config,      \* the Config object shared by the dispatcher and the endpoints
  model,       \* DeepSeekOCR.model is loaded (not None)
  tokenizer,   \* DeepSeekOCR.tokenizer is loaded (not None)
  disk,        \* the image files that exist
  d_pc,        \* position of the running extract_text call
  d_caller,    \* who called extract_text: "direct" or "batch"
  d_path,      \* its image_path argument
  d_prompt,    \* its prompt argument (Optional)
  d_image,     \* its local variable image (Optional)
  d_result,    \* the dict it returned (Optional)
  d_exc,       \* the message of the OCRError it raised ("" when none)
  attempts,    \* history: the steps this call invoked, with each outcome
  s_pc,        \* start-up: "boot", "configured", "config_error", "running"
  cm_config,   \* _config_manager.config, what get_config() returns (Optional)
  s_exc,       \* the exception the last start-up operation raised ("" when none)
  s_load,      \* history: how the local model load of this run went ("none":
               \* no load has been seen)
  f_call,      \* the last call of a helper function: its name and arguments
  f_out,       \* what that call returned or raised
  b_pc,        \* position of the running batch_extract_text call
  b_paths,     \* its image_paths argument
  b_prompt,    \* its prompt argument
  b_results,   \* its local list results
  b_i,         \* the number of paths its loop has finished
  h_pc,        \* position of the HTTP request being handled
  req,         \* the request: endpoint, uploaded files, form fields
  h_prompt,    \* the handler's local variable prompt
  h_file_path, \* upload_file / api_ocr: local variable file_path (Optional)
  h_file_paths,\* batch handlers: local list file_paths ({} while unbound)
  h_results,   \* batch handlers: local list results
  h_i,         \* batch handlers: the number of uploaded files looped over
  h_response,  \* the response the handler is returning (Optional)
  h_saved,     \* history: the paths this request wrote to the upload folder
  h_ocr_calls, \* history: the extract_text calls made for this request
  w_pc,        \* concurrent handling: the position of each worker's handler
  w_req,       \* the request each worker handles: endpoint, filename
  w_file_path, \* each handler's local variable file_path (Optional)
  w_folder,    \* the upload folder: path -> the worker whose upload it holds
  w_uuids,     \* the number of uuid.uuid4() calls made so far
  w_read,      \* history: whose uploads each worker's extract_text opened
  w_removed    \* history: whose uploads each worker's cleanup deleted

dvars == <<d_pc, d_caller, d_path, d_prompt, d_image, d_result, d_exc, attempts>>
bvars == <<b_pc, b_paths, b_prompt, b_results, b_i>>
hvars == <<h_pc, req, h_prompt, h_file_path, h_file_paths, h_results, h_i,
           h_response, h_saved, h_ocr_calls>>
svars == <<s_pc, cm_config, s_exc, s_load>>
fvars == <<f_call, f_out>>
nonwvars == <<config, model, tokenizer, disk, dvars, bvars, hvars, svars, fvars>>
wvars == <<w_pc, w_req, w_file_path, w_folder, w_uuids, w_read, w_removed>>
envvars == <<config, model, tokenizer>>
vars == <<config, model, tokenizer, disk, dvars, bvars, hvars, svars, fvars, wvars>>

\* ------------------------------------------------------------------------
\* Construction: DeepSeekOCR.__init__
\* ------------------------------------------------------------------------

\* what loading the local model can do: succeed, find no model directory,
\* fail in the tokenizer, fail in the model, fail in model.eval()
LoadOutcomes ==
  {"ok", "path_missing", "tokenizer_fails", "model_fails", "eval_fails"}

\* ConfigManager._validate_config, the two model rules
ValidModelConfig(cfg) ==
  /\ cfg.use_local => cfg.local_path # ""
  /\ ~cfg.use_local => cfg.api_key # ""

\* a constructor that leaves use_local set when the load fails
InitializeModel_KeepsLocal(cfg, load) ==
  IF cfg.use_local
  THEN [config |-> cfg,
        model |-> (load \in {"ok", "eval_fails"}),
        tokenizer |-> (load \in {"ok", "model_fails", "eval_fails"})]
  ELSE [config |-> cfg, model |-> FALSE, tokenizer |-> FALSE]

\* DeepSeekOCR._initialize_model with _load_local_model: the state the
\* constructor leaves for a configuration and a load outcome
InitializeModel(cfg, load) ==
  IF cfg.use_local
  THEN IF load = "ok"
       THEN [config |-> cfg, model |-> TRUE, tokenizer |-> TRUE]
       ELSE [config |-> [cfg EXCEPT !.use_local = FALSE],
             model |-> (load = "eval_fails"),
             tokenizer |-> (load \in {"model_fails", "eval_fails"})]
  ELSE [config |-> cfg, model |-> FALSE, tokenizer |-> FALSE]

\* the configurations a deployment can load, for given batch size caps
ConfigsWith(batch_sizes) ==
  {cfg \in [use_local : BOOLEAN, local_path : {DefaultLocalPath},
            api_key : {"", "key"},
            pre_enabled : BOOLEAN, pre_resize : BOOLEAN,
            batch_size : batch_sizes,
            max_file_size : {MaxFileSize}, port : {DefaultPort}] :
     ValidModelConfig(cfg)}

Configs == ConfigsWith({DefaultBatchSize})

DispatcherIdle ==
  /\ d_pc = "idle"
  /\ d_caller = "none"
  /\ d_path = ""
  /\ d_prompt = {}
  /\ d_image = {}
  /\ d_result = {}
  /\ d_exc = ""
  /\ attempts = <<>>

BatchIdle ==
  /\ b_pc = "idle"
  /\ b_paths = <<>>
  /\ b_prompt = {}
  /\ b_results = <<>>
  /\ b_i = 0

\* no request is being handled
NoRequest ==
  [endpoint |-> "none", files |-> <<>>, prompt |-> "none",
   structure_prompt |-> "none", limit_enforced |-> FALSE]

\* a helper call's outcome: the value returned, or the message raised
Returns(value) == [raised |-> FALSE, value |-> value]

Raises(message) == [raised |-> TRUE, value |-> message]

\* no helper function has been called
NoCall ==
  /\ f_call = [fn |-> "none"]
  /\ f_out = Returns("none")

\* the application has started: get_config() has loaded the
\* configuration the processor was constructed with
Started ==
  /\ s_pc = "running"
  /\ cm_config = {config}
  /\ s_exc = ""
  /\ s_load = "none"
  /\ NoCall

\* the worker threads (or processes) of the server, each handling one
\* request at a time
Workers == 1..MaxWorkers

\* no worker has a request; the upload folder is empty
WorkersIdle ==
  /\ w_pc = [w \in Workers |-> "idle"]
  /\ w_req = [w \in Workers |-> [endpoint |-> "none", filename |-> ""]]
  /\ w_file_path = [w \in Workers |-> {}]
  /\ w_folder = <<>>
  /\ w_uuids = 0
  /\ w_read = [w \in Workers |-> {}]
  /\ w_removed = [w \in Workers |-> {}]

HandlerIdle ==
  /\ WorkersIdle
  /\ h_pc = "idle"
  /\ req = NoRequest
  /\ h_prompt = <<>>
  /\ h_file_path = {}
  /\ h_file_paths = {}
  /\ h_results = <<>>
  /\ h_i = 0
  /\ h_response = {}
  /\ h_saved = {}
  /\ h_ocr_calls = 0

Init ==
  /\ HandlerIdle
  /\ \E cfg \in Configs, load \in LoadOutcomes :
       LET made == InitializeModel(cfg, load)
       IN /\ config = made.config
          /\ model = made.model
          /\ tokenizer = made.tokenizer
  /\ Started
  /\ disk = {"img1"}
  /\ DispatcherIdle
  /\ BatchIdle

\* ------------------------------------------------------------------------
\* extract_text, step by step
\* ------------------------------------------------------------------------

Attempt(method, outcome, raw) == [method |-> method, outcome |-> outcome, raw |-> raw]

\* mutant: the API branch is taken without looking at the API key
Dispatch_NoKeyCheck(cfg, m, t) ==
  IF cfg.use_local /\ m /\ t THEN "local"
  ELSE IF ~cfg.use_local THEN "api"
  ELSE "easyocr"

\* the branch extract_text takes once the image is ready (lines 137-152)
Dispatch(cfg, m, t) ==
  IF cfg.use_local /\ m /\ t THEN "local"
  ELSE IF ~cfg.use_local /\ cfg.api_key # "" THEN "api"
  ELSE "easyocr"

\* entry of extract_text(image_path, prompt)
ExtractTextCall(caller, image_path, prompt) ==
  /\ d_pc' = "load"
  /\ d_caller' = caller
  /\ d_path' = image_path
  /\ d_prompt' = prompt
  /\ d_image' = {}
  /\ d_result' = {}
  /\ d_exc' = ""
  /\ attempts' = <<>>

\* the call frame of extract_text is gone
ResetDispatcher ==
  /\ d_pc' = "idle"
  /\ d_caller' = "none"
  /\ d_path' = ""
  /\ d_prompt' = {}
  /\ d_image' = {}
  /\ d_result' = {}
  /\ d_exc' = ""
  /\ attempts' = <<>>

\* the except clause of extract_text: log, raise OCRError
RaiseOCRError(message) ==
  /\ d_pc' = "raised"
  /\ d_exc' = message
  /\ d_result' = {}

\* a caller outside the application calls extract_text
DirectExtractText ==
  /\ d_pc = "idle"
  /\ b_pc = "idle"
  /\ \E image_path \in Paths, prompt \in Prompts :
       ExtractTextCall("direct", image_path, prompt)
  /\ UNCHANGED <<wvars, fvars, svars, envvars, hvars, disk, bvars>>

\* image_processor.load_image(image_path): a missing file raises, an
\* existing one is read or turns out unreadable
LoadImage ==
  /\ d_pc = "load"
  /\ \/ /\ d_path \in disk
        /\ d_image' = {LoadedImage(ImageSize)}
        /\ d_pc' = IF config.pre_enabled THEN "preprocess"
                   ELSE Dispatch(config, model, tokenizer)
        /\ UNCHANGED <<d_result, d_exc>>
     \/ /\ RaiseOCRError("Text extraction failed: Image loading failed")
        /\ UNCHANGED d_image
  /\ UNCHANGED <<wvars, fvars, svars, envvars, hvars, disk, bvars, d_caller, d_path, d_prompt, attempts>>

\* image_processor.preprocess_image(image), when preprocessing is enabled
PreprocessImage ==
  /\ d_pc = "preprocess"
  /\ \/ /\ d_image' = {PreprocessedImage(img, config) : img \in d_image}
        /\ d_pc' = Dispatch(config, model, tokenizer)
        /\ UNCHANGED <<d_result, d_exc>>
     \/ /\ RaiseOCRError("Text extraction failed: Preprocessing failed")
        /\ UNCHANGED d_image
  /\ UNCHANGED <<wvars, fvars, svars, envvars, hvars, disk, bvars, d_caller, d_path, d_prompt, attempts>>

\* a local step that gives up the local model when generation raises, the
\* way _initialize_model does when loading fails
LocalStep_SwitchesToApi ==
  /\ d_pc = "local"
  /\ \/ \E response \in Texts :
          /\ attempts' = Append(attempts, Attempt("deepseek_local", "returned", response))
          /\ d_result' = {LocalResult(response)}
          /\ d_pc' = "metadata"
          /\ UNCHANGED <<d_exc, config>>
     \/ /\ attempts' = Append(attempts, Attempt("deepseek_local", "raised", <<>>))
        /\ RaiseOCRError("Text extraction failed: Local OCR processing failed")
        /\ config' = [config EXCEPT !.use_local = FALSE]
  /\ UNCHANGED <<wvars, fvars, svars, model, tokenizer, hvars, disk, bvars, d_caller, d_path, d_prompt, d_image>>

\* _extract_text_local: generation returns a response, or something in the
\* step raises (re-raised as OCRError, which extract_text re-raises)
LocalStep ==
  /\ d_pc = "local"
  /\ \/ \E response \in Texts :
          /\ attempts' = Append(attempts, Attempt("deepseek_local", "returned", response))
          /\ d_result' = {LocalResult(response)}
          /\ d_pc' = "metadata"
          /\ UNCHANGED d_exc
     \/ /\ attempts' = Append(attempts, Attempt("deepseek_local", "raised", <<>>))
        /\ RaiseOCRError("Text extraction failed: Local OCR processing failed")
  /\ UNCHANGED <<wvars, fvars, svars, envvars, hvars, disk, bvars, d_caller, d_path, d_prompt, d_image>>

\* _extract_text_api and what extract_text does with its answer (lines
\* 141-149): the notice leads to the fallback chain; an exception inside the
\* step is answered by the step's own except clause with an api_error dict
ApiStep ==
  /\ d_pc = "api"
  /\ \E img \in d_image :
       \/ /\ attempts' = Append(attempts, Attempt("deepseek_api", "limitation", <<>>))
          /\ d_result' = {ApiLimitationResult(img, EffectivePrompt(d_prompt))}
          /\ d_pc' = "easyocr"
       \/ /\ attempts' = Append(attempts, Attempt("deepseek_api", "error", <<>>))
          /\ d_result' = {ApiErrorResult}
          /\ d_pc' = "metadata"
  /\ UNCHANGED <<wvars, fvars, svars, envvars, hvars, disk, bvars, d_caller, d_path, d_prompt, d_image, d_exc>>

\* an EasyOCR block that is run a second time after it raised
EasyOCRStep_RetryOnce ==
  /\ d_pc = "easyocr"
  /\ \/ \E results \in DetectionLists :
          LET accepted == AcceptedDetections(results)
          IN IF accepted # <<>>
             THEN /\ attempts' = Append(attempts, Attempt("easyocr", "returned", results))
                  /\ d_result' = {EasyOCRResult(accepted)}
                  /\ d_pc' = "metadata"
             ELSE /\ attempts' = Append(attempts, Attempt("easyocr", "no_text", results))
                  /\ d_pc' = "tesseract"
                  /\ UNCHANGED d_result
     \/ \E failure \in {"import_error", "raised"} :
          /\ attempts' = Append(attempts, Attempt("easyocr", failure, <<>>))
          /\ d_pc' = IF failure = "raised" /\ attempts = <<>>
                     THEN "easyocr" ELSE "tesseract"
          /\ UNCHANGED d_result
  /\ UNCHANGED <<wvars, fvars, svars, envvars, hvars, disk, bvars, d_caller, d_path, d_prompt, d_image, d_exc>>

\* the EasyOCR block of _extract_text_fallback
EasyOCRStep ==
  /\ d_pc = "easyocr"
  /\ \/ \E results \in DetectionLists :
          LET accepted == AcceptedDetections(results)
          IN IF accepted # <<>>
             THEN /\ attempts' = Append(attempts, Attempt("easyocr", "returned", results))
                  /\ d_result' = {EasyOCRResult(accepted)}
                  /\ d_pc' = "metadata"
             ELSE /\ attempts' = Append(attempts, Attempt("easyocr", "no_text", results))
                  /\ d_pc' = "tesseract"
                  /\ UNCHANGED d_result
     \/ \E failure \in {"import_error", "raised"} :
          /\ attempts' = Append(attempts, Attempt("easyocr", failure, <<>>))
          /\ d_pc' = "tesseract"
          /\ UNCHANGED d_result
  /\ UNCHANGED <<wvars, fvars, svars, envvars, hvars, disk, bvars, d_caller, d_path, d_prompt, d_image, d_exc>>

\* the Tesseract block of _extract_text_fallback
TesseractStep ==
  /\ d_pc = "tesseract"
  /\ \/ \E extracted_text \in Texts :
          IF Strip(extracted_text) # <<>>
          THEN /\ attempts' = Append(attempts, Attempt("tesseract", "returned", extracted_text))
               /\ d_result' = {TesseractResult(extracted_text)}
               /\ d_pc' = "metadata"
          ELSE /\ attempts' = Append(attempts, Attempt("tesseract", "no_text", extracted_text))
               /\ d_pc' = "demo"
               /\ UNCHANGED d_result
     \/ \E failure \in {"import_error", "raised"} :
          /\ attempts' = Append(attempts, Attempt("tesseract", failure, <<>>))
          /\ d_pc' = "demo"
          /\ UNCHANGED d_result
  /\ UNCHANGED <<wvars, fvars, svars, envvars, hvars, disk, bvars, d_caller, d_path, d_prompt, d_image, d_exc>>

\* _extract_text_demo, reached when neither fallback engine produced text
DemoStep ==
  /\ d_pc = "demo"
  /\ attempts' = Append(attempts, Attempt("demo_mode", "returned", <<>>))
  /\ d_result' = {DemoResult(img) : img \in d_image}
  /\ d_pc' = "metadata"
  /\ UNCHANGED <<wvars, fvars, svars, envvars, hvars, disk, bvars, d_caller, d_path, d_prompt, d_image, d_exc>>

\* result.update(...); return result
AddMetadata ==
  /\ d_pc = "metadata"
  /\ d_result' = {WithMetadata(r, d_path, img, config) : r \in d_result, img \in d_image}
  /\ d_pc' = "returned"
  /\ UNCHANGED <<wvars, fvars, svars, envvars, hvars, disk, bvars, d_caller, d_path, d_prompt, d_image, d_exc, attempts>>

\* the direct caller has its answer
DirectReturn ==
  /\ d_pc \in {"returned", "raised"}
  /\ d_caller = "direct"
  /\ ResetDispatcher
  /\ UNCHANGED <<wvars, fvars, svars, envvars, hvars, disk, bvars>>

ExtractTextSteps ==
  \/ LoadImage
  \/ PreprocessImage
  \/ LocalStep
  \/ ApiStep
  \/ EasyOCRStep
  \/ TesseractStep
  \/ DemoStep
  \/ AddMetadata

\* ------------------------------------------------------------------------
\* batch_extract_text
\* ------------------------------------------------------------------------

PathLists == UNION {[1..n -> Paths] : n \in 0..MaxBatch}

\* the entry the except clause of the loop appends for a failed item
FailureEntry(image_path, message) ==
  [image_path |-> image_path,
   text |-> <<>>,
   error |-> message,
   success |-> FALSE]

\* a caller outside the application calls batch_extract_text
BatchCall ==
  /\ b_pc = "idle"
  /\ d_pc = "idle"
  /\ \E image_paths \in PathLists, prompt \in Prompts :
       /\ b_paths' = image_paths
       /\ b_prompt' = prompt
  /\ b_pc' = "loop"
  /\ b_results' = <<>>
  /\ b_i' = 0
  /\ UNCHANGED <<wvars, fvars, svars, envvars, hvars, disk, dvars>>

\* the loop takes the next path and calls extract_text on it
BatchIterate ==
  /\ b_pc = "loop"
  /\ d_pc = "idle"
  /\ b_i < Len(b_paths)
  /\ ExtractTextCall("batch", b_paths[b_i + 1], b_prompt)
  /\ UNCHANGED <<wvars, fvars, svars, envvars, hvars, disk, bvars>>

\* mutant: a failed item is logged and skipped, nothing is appended
BatchCollect_SkipFailed ==
  /\ b_pc = "loop"
  /\ d_caller = "batch"
  /\ \/ /\ d_pc = "returned"
        /\ b_results' = b_results \o [i \in 1..1 |-> CHOOSE r \in d_result : TRUE]
     \/ /\ d_pc = "raised"
        /\ b_results' = b_results
  /\ b_i' = b_i + 1
  /\ ResetDispatcher
  /\ UNCHANGED <<wvars, fvars, svars, envvars, hvars, disk, b_pc, b_paths, b_prompt>>

\* the call came back: append its result, or the failure entry if it raised
BatchCollect ==
  /\ b_pc = "loop"
  /\ d_caller = "batch"
  /\ \/ /\ d_pc = "returned"
        /\ b_results' = b_results \o [i \in 1..1 |-> CHOOSE r \in d_result : TRUE]
     \/ /\ d_pc = "raised"
        /\ b_results' = Append(b_results, FailureEntry(d_path, d_exc))
  /\ b_i' = b_i + 1
  /\ ResetDispatcher
  /\ UNCHANGED <<wvars, fvars, svars, envvars, hvars, disk, b_pc, b_paths, b_prompt>>

\* the loop is over: return results
BatchReturn ==
  /\ b_pc = "loop"
  /\ d_pc = "idle"
  /\ b_i = Len(b_paths)
  /\ b_pc' = "returned"
  /\ UNCHANGED <<wvars, fvars, svars, envvars, hvars, disk, dvars, b_paths, b_prompt, b_results, b_i>>

\* the caller of batch_extract_text has its list
BatchDone ==
  /\ b_pc = "returned"
  /\ b_pc' = "idle"
  /\ b_paths' = <<>>
  /\ b_prompt' = {}
  /\ b_results' = <<>>
  /\ b_i' = 0
  /\ UNCHANGED <<wvars, fvars, svars, envvars, hvars, disk, dvars>>

Next ==
  \/ DirectExtractText
  \/ ExtractTextSteps
  \/ DirectReturn
  \/ BatchCall
  \/ BatchIterate
  \/ BatchCollect
  \/ BatchReturn
  \/ BatchDone

Spec == Init /\ [][Next]_vars

\* ------------------------------------------------------------------------
\* Input validation (app/utils/validation.py)
\* ------------------------------------------------------------------------

\* the uploads a client sends: an empty part, a good image with a name that
\* secure_filename rewrites, a text file, an oversized image, and a file
\* with an allowed extension whose type is recognised neither by its name
\* nor by its first bytes
UploadFiles ==
  {[filename |-> "", size |-> 0, mime_ok |-> FALSE, header_ok |-> FALSE],
   [filename |-> "my scan.JPG", size |-> 1, mime_ok |-> TRUE, header_ok |-> TRUE],
   [filename |-> "notes.txt", size |-> 1, mime_ok |-> FALSE, header_ok |-> FALSE],
   [filename |-> "big.jpg", size |-> MaxFileSize + 1, mime_ok |-> TRUE, header_ok |-> TRUE],
   [filename |-> "odd.bmp", size |-> 1, mime_ok |-> FALSE, header_ok |-> FALSE]}

\* filename.rsplit('.', 1)[1] for the names above ("" when there is no dot)
Extension(filename) ==
  IF filename = "my scan.JPG" THEN "JPG"
  ELSE IF filename = "notes.txt" THEN "txt"
  ELSE IF filename = "big.jpg" THEN "jpg"
  ELSE IF filename = "odd.bmp" THEN "bmp"
  ELSE ""

\* str.lower() on the extensions above
Lower(ext) == IF ext = "JPG" THEN "jpg" ELSE ext

\* werkzeug secure_filename on the names above: blanks become underscores
SecureFilename(filename) ==
  IF filename = "my scan.JPG" THEN "my_scan.JPG" ELSE filename

\* FileValidator._is_allowed_extension
IsAllowedExtension(filename) ==
  /\ Extension(filename) # ""
  /\ Lower(Extension(filename)) \in AllowedExtensions

\* FileValidator._is_valid_size
IsValidSize(file) == file.size <= MaxFileSize

\* FileValidator._is_valid_mime_type
IsValidMimeType(file) == file.mime_ok \/ file.header_ok

\* a validate_file that checks the size before the extension
ValidateFile_SizeFirst(file) ==
  IF file.filename = "" THEN "No file provided"
  ELSE IF ~IsValidSize(file) THEN "File too large"
  ELSE IF ~IsAllowedExtension(file.filename) THEN "File type not allowed"
  ELSE IF ~IsValidMimeType(file) THEN "Invalid file type"
  ELSE "ok"

\* FileValidator.validate_file: "ok", or the message of the ValidationError
ValidateFile(file) ==
  IF file.filename = "" THEN "No file provided"
  ELSE IF ~IsAllowedExtension(file.filename) THEN "File type not allowed"
  ELSE IF ~IsValidSize(file) THEN "File too large"
  ELSE IF ~IsValidMimeType(file) THEN "Invalid file type"
  ELSE "ok"

\* the prompt form field: absent, a short prompt, an over-long one
PromptIds == {"none", "short", "long"}

\* request.form.get(name, '') for each of them
PromptText(id) ==
  IF id = "none" THEN <<>>
  ELSE IF id = "short" THEN <<" ", "p", "NUL">>
  ELSE [i \in 1..(StructurePromptMaxLength + 1) |-> "p"]

\* prompt.replace('\x00', '')
RemoveNullBytes(prompt) ==
  LET NotNul(c) == c # "NUL" IN SelectSeq(prompt, NotNul)

\* InputValidator.validate_prompt: the cleaned prompt, or not ok (the
\* ValidationError "Prompt too long")
ValidatePrompt(prompt, max_length) ==
  IF prompt = <<>> THEN [ok |-> TRUE, value |-> <<>>]
  ELSE LET stripped == Strip(prompt)
       IN IF Len(stripped) > max_length
          THEN [ok |-> FALSE, value |-> <<>>]
          ELSE [ok |-> TRUE, value |-> RemoveNullBytes(stripped)]

\* InputValidator.validate_batch_size: "ok", or the ValidationError message
ValidateBatchSize(batch_size, max_batch_size) ==
  IF batch_size < 1 THEN "Batch size must be at least 1"
  ELSE IF batch_size > max_batch_size THEN "Batch size too large"
  ELSE "ok"

\* ------------------------------------------------------------------------
\* HTTP endpoints (app/main.py, app/api/routes.py)
\* ------------------------------------------------------------------------

SingleEndpoints == {"/upload", "/api/v1/ocr", "/api/v1/ocr/structured"}

BatchEndpoints == {"/batch_upload", "/api/v1/ocr/batch"}

\* the two handlers of app/main.py end in a finally block that covers the
\* whole handler; those of app/api/routes.py clean up in an inner finally
MainEndpoints == {"/upload", "/batch_upload"}

FileLists == UNION {[1..n -> UploadFiles] : n \in 0..MaxFiles}

\* the body is larger than MAX_CONTENT_LENGTH (= max_file_size)
BodyTooLarge(files) == \E i \in 1..Len(files) : files[i].size > MaxFileSize

\* the requests a client sends; with a body above MAX_CONTENT_LENGTH the
\* framework may refuse to parse the form (RequestEntityTooLarge when
\* request.files is read) or, the length being unknown to it, hand the
\* files to the handler
Requests ==
  {r \in [endpoint : SingleEndpoints \cup BatchEndpoints,
          files : FileLists,
          prompt : PromptIds,
          structure_prompt : PromptIds,
          limit_enforced : BOOLEAN] :
     /\ r.endpoint \in SingleEndpoints => Len(r.files) <= 1
     /\ r.endpoint = "/api/v1/ocr/structured" => r.prompt = "none"
     /\ r.endpoint # "/api/v1/ocr/structured" => r.structure_prompt = "none"
     /\ r.limit_enforced => BodyTooLarge(r.files)}

Response(status, error) == [status |-> status, error |-> error]

\* what a call of extract_text (or extract_structured_data) made by a
\* handler ends in: a result, a result carrying an 'error' key (the
\* api_error dict, API mode only), or OCRError
ExtractTextOutcomes(cfg, m, t) ==
  {"returned", "raised"} \cup
  (IF Dispatch(cfg, m, t) = "api" THEN {"returned_with_error"} ELSE {})

\* uuid.uuid4(): an identifier no file of the upload folder carries
FreshUuid ==
  LET used == {path[1] : path \in disk \cup h_saved}
  IN CHOOSE n \in 1..(Cardinality(used) + 1) : n \notin used

\* where a handler goes once its response is decided outside the part
\* covered by a finally block
AfterDecision(endpoint) ==
  IF endpoint \in MainEndpoints THEN "cleanup" ELSE "answered"

\* a request arrives
H_Receive ==
  /\ h_pc = "idle"
  /\ d_pc = "idle"
  /\ b_pc = "idle"
  /\ \E r \in Requests : req' = r
  /\ h_pc' = "validate"
  /\ UNCHANGED <<wvars, fvars, svars, envvars, disk, dvars, bvars, h_prompt, h_file_path, h_file_paths,
                 h_results, h_i, h_response, h_saved, h_ocr_calls>>

\* the checks of upload_file, api_ocr and api_structured_ocr before the
\* upload is saved: the response of a rejected request, or status 0 and
\* the cleaned prompt
SingleValidation(r) ==
  LET structured == r.endpoint = "/api/v1/ocr/structured"
      text == PromptText(IF structured THEN r.structure_prompt ELSE r.prompt)
      checked == ValidatePrompt(text, IF structured THEN StructurePromptMaxLength
                                      ELSE PromptMaxLength)
  IN IF r.limit_enforced
     THEN [status |-> 500, error |-> "Internal server error", prompt |-> <<>>]
     ELSE IF r.files = <<>>
     THEN [status |-> 400, error |-> "No file provided", prompt |-> <<>>]
     ELSE IF r.files[1].filename = ""
     THEN [status |-> 400, error |-> "No file selected", prompt |-> <<>>]
     ELSE IF ValidateFile(r.files[1]) # "ok"
     THEN [status |-> 400, error |-> ValidateFile(r.files[1]), prompt |-> <<>>]
     ELSE IF structured /\ text = <<>>
     THEN [status |-> 400, error |-> "structure_prompt is required", prompt |-> <<>>]
     ELSE IF text # <<>> /\ ~checked.ok
     THEN [status |-> 400, error |-> "Prompt too long", prompt |-> <<>>]
     ELSE [status |-> 0, error |-> "", prompt |-> checked.value]

\* upload_file / api_ocr / api_structured_ocr up to the save
H_Validate ==
  /\ h_pc = "validate"
  /\ req.endpoint \in SingleEndpoints
  /\ LET v == SingleValidation(req)
     IN IF v.status = 0
        THEN /\ h_prompt' = v.prompt
             /\ h_pc' = "save"
             /\ UNCHANGED h_response
        ELSE /\ h_response' = {Response(v.status, v.error)}
             /\ h_pc' = AfterDecision(req.endpoint)
             /\ UNCHANGED h_prompt
  /\ UNCHANGED <<wvars, fvars, svars, envvars, disk, dvars, bvars, req, h_file_path, h_file_paths,
                 h_results, h_i, h_saved, h_ocr_calls>>

\* file.save(file_path) under a fresh name; a failing save is an
\* unexpected error
H_Save ==
  /\ h_pc = "save"
  /\ LET file_path == <<FreshUuid, SecureFilename(req.files[1].filename)>>
     IN /\ h_file_path' = {file_path}
        /\ \/ /\ disk' = disk \cup {file_path}
              /\ h_saved' = h_saved \cup {file_path}
              /\ h_pc' = "process"
              /\ UNCHANGED h_response
           \/ /\ h_response' = {Response(500, "Internal server error")}
              /\ h_pc' = AfterDecision(req.endpoint)
              /\ UNCHANGED <<disk, h_saved>>
  /\ UNCHANGED <<wvars, fvars, svars, envvars, dvars, bvars, req, h_prompt, h_file_paths,
                 h_results, h_i, h_ocr_calls>>

\* ocr_processor.extract_text / extract_structured_data and the response
\* built from it; /upload also writes the result file, which can fail.
\* The handler passes its local prompt, a string also when the form had no
\* prompt field; the call is recorded with the step extract_text starts
\* with and the prompt that step works with
H_Process ==
  /\ h_pc = "process"
  /\ h_ocr_calls' = h_ocr_calls + 1
  /\ f_call' = [fn |-> "extract_text",
                prompt |-> {h_prompt},
                step |-> Dispatch(config, model, tokenizer),
                step_prompt |-> EffectivePrompt({h_prompt})]
  /\ \E outcome \in ExtractTextOutcomes(config, model, tokenizer) :
       /\ f_out' = IF outcome = "raised" THEN Raises("Text extraction failed")
                   ELSE Returns(outcome)
       /\ IF outcome = "raised"
          THEN h_response' = {Response(500, "Text extraction failed")}
          ELSE \/ h_response' = {Response(200, "")}
               \/ /\ req.endpoint = "/upload"
                  /\ h_response' = {Response(500, "Internal server error")}
  /\ h_pc' = "cleanup"
  /\ UNCHANGED <<wvars, svars, envvars, disk, dvars, bvars, req, h_prompt, h_file_path,
                 h_file_paths, h_results, h_i, h_saved>>


\* the checks of batch_upload and api_batch_ocr before the loop over the
\* files: the response of a rejected request, or status 0 and the cleaned
\* prompt
BatchValidation(r, cfg) ==
  LET text == PromptText(r.prompt)
      checked == ValidatePrompt(text, PromptMaxLength)
      size == ValidateBatchSize(Len(r.files), cfg.batch_size)
  IN IF r.limit_enforced
     THEN [status |-> 500, error |-> "Internal server error", prompt |-> <<>>]
     ELSE IF r.files = <<>>
     THEN [status |-> 400, error |-> "No files provided", prompt |-> <<>>]
     ELSE IF size # "ok"
     THEN [status |-> 400, error |-> size, prompt |-> <<>>]
     ELSE IF text # <<>> /\ ~checked.ok
     THEN [status |-> 400, error |-> "Prompt too long", prompt |-> <<>>]
     ELSE [status |-> 0, error |-> "", prompt |-> checked.value]

\* batch_upload / api_batch_ocr up to `results = []; file_paths = []`,
\* which only a request that passed the checks reaches
HB_Validate ==
  /\ h_pc = "validate"
  /\ req.endpoint \in BatchEndpoints
  /\ LET v == BatchValidation(req, config)
     IN IF v.status = 0
        THEN /\ h_prompt' = v.prompt
             /\ h_results' = <<>>
             /\ h_file_paths' = {<<>>}
             /\ h_pc' = "loop"
             /\ UNCHANGED h_response
        ELSE /\ h_response' = {Response(v.status, v.error)}
             /\ h_pc' = AfterDecision(req.endpoint)
             /\ UNCHANGED <<h_prompt, h_results, h_file_paths>>
  /\ UNCHANGED <<wvars, fvars, svars, envvars, disk, dvars, bvars, req, h_file_path, h_i,
                 h_saved, h_ocr_calls>>

\* an entry of the results list of a batch response
Entry(filename, success, error) ==
  [filename |-> filename, success |-> success, error |-> error]

\* one round of `for file in files`: skip an empty part, record a file
\* that fails validation or cannot be saved, save the others
HB_File ==
  /\ h_pc = "loop"
  /\ h_i < Len(req.files)
  /\ h_i' = h_i + 1
  /\ LET file == req.files[h_i + 1]
         file_path == <<FreshUuid, SecureFilename(file.filename)>>
         saved == [file_path |-> file_path,
                   filename |-> SecureFilename(file.filename)]
     IN IF file.filename = ""
        THEN UNCHANGED <<disk, h_saved, h_file_paths, h_results>>
        ELSE IF ValidateFile(file) # "ok"
        THEN /\ h_results' = Append(h_results,
                               Entry(file.filename, FALSE, ValidateFile(file)))
             /\ UNCHANGED <<disk, h_saved, h_file_paths>>
        ELSE \/ /\ disk' = disk \cup {file_path}
                /\ h_saved' = h_saved \cup {file_path}
                /\ h_file_paths' = {Append(fp, saved) : fp \in h_file_paths}
                /\ UNCHANGED h_results
             \/ /\ h_results' = Append(h_results,
                                  Entry(file.filename, FALSE, "save failed"))
                /\ UNCHANGED <<disk, h_saved, h_file_paths>>
  /\ UNCHANGED <<wvars, fvars, svars, envvars, dvars, bvars, h_pc, req, h_prompt, h_file_path,
                 h_response, h_ocr_calls>>

\* the 200 response of the batch endpoints
BatchResponse(total, results) ==
  [status |-> 200, error |-> "",
   total_files |-> total,
   processed_files |-> Cardinality({i \in 1..Len(results) : results[i].success}),
   failed_files |-> Cardinality({i \in 1..Len(results) : ~results[i].success}),
   results |-> results]

\* after the loop: batch_extract_text over the saved files (one extract_text
\* call each, an OCRError becoming an entry with an 'error' key), one
\* results entry per OCR result, the 200 response; /batch_upload writes a
\* result file per success, and a failing write is an unexpected error
HB_Process ==
  /\ h_pc = "loop"
  /\ h_i = Len(req.files)
  /\ \E file_paths \in h_file_paths :
     \E outcomes \in [1..Len(file_paths) ->
                        ExtractTextOutcomes(config, model, tokenizer)] :
       LET ocr == [i \in 1..Len(file_paths) |->
                     Entry(file_paths[i].filename, outcomes[i] = "returned",
                           IF outcomes[i] = "returned" THEN ""
                           ELSE IF outcomes[i] = "raised"
                                THEN "Text extraction failed"
                                ELSE "API request failed")]
       IN /\ h_ocr_calls' = h_ocr_calls + Len(file_paths)
          /\ \/ /\ h_results' = h_results \o ocr
                /\ h_response' = {BatchResponse(Len(req.files), h_results \o ocr)}
             \/ /\ req.endpoint = "/batch_upload"
                /\ \E k \in {i \in 1..Len(file_paths) : outcomes[i] = "returned"} :
                     h_results' = h_results \o SubSeq(ocr, 1, k - 1)
                /\ h_response' = {Response(500, "Internal server error")}
  /\ h_pc' = "cleanup"
  /\ UNCHANGED <<wvars, fvars, svars, envvars, disk, dvars, bvars, req, h_prompt, h_file_path,
                 h_file_paths, h_i, h_saved>>

\* a cleanup that is only done for a request that succeeded
H_Cleanup_OnSuccessOnly ==
  /\ h_pc = "cleanup"
  /\ IF req.endpoint \in BatchEndpoints /\ h_file_paths = {}
     THEN /\ h_response' = {Response(500, "Internal Server Error")}
          /\ UNCHANGED disk
     ELSE /\ disk' = IF \E r \in h_response : r.status = 200
                     THEN disk \ h_saved
                     ELSE disk
          /\ UNCHANGED h_response
  /\ h_pc' = "answered"
  /\ UNCHANGED <<wvars, fvars, svars, envvars, dvars, bvars, req, h_prompt, h_file_path,
                 h_file_paths, h_results, h_i, h_saved, h_ocr_calls>>

\* the finally blocks: os.remove of what the handler saved and still
\* exists.  The finally of batch_upload iterates over file_paths, which is
\* unbound when the handler left before `file_paths = []`: the
\* UnboundLocalError replaces the pending response, and the framework
\* answers 500
H_Cleanup ==
  /\ h_pc = "cleanup"
  /\ IF req.endpoint \in SingleEndpoints
     THEN /\ disk' = disk \ h_file_path
          /\ UNCHANGED h_response
     ELSE IF h_file_paths = {}
     THEN /\ h_response' = {Response(500, "Internal Server Error")}
          /\ UNCHANGED disk
     ELSE /\ disk' = disk \ UNION {{fp[i].file_path : i \in 1..Len(fp)} :
                                 fp \in h_file_paths}
          /\ UNCHANGED h_response
  /\ h_pc' = "answered"
  /\ UNCHANGED <<wvars, fvars, svars, envvars, dvars, bvars, req, h_prompt, h_file_path,
                 h_file_paths, h_results, h_i, h_saved, h_ocr_calls>>

\* the response has gone out; the handler's locals are dropped
H_Done ==
  /\ h_pc = "answered"
  /\ h_pc' = "idle"
  /\ req' = NoRequest
  /\ h_prompt' = <<>>
  /\ h_file_path' = {}
  /\ h_file_paths' = {}
  /\ h_results' = <<>>
  /\ h_i' = 0
  /\ h_response' = {}
  /\ h_saved' = {}
  /\ h_ocr_calls' = 0
  /\ f_call' = [fn |-> "none"]
  /\ f_out' = Returns("none")
  /\ UNCHANGED <<wvars, svars, envvars, disk, dvars, bvars>>

\* create_app: the processor is constructed, the upload folder is empty
InitHttp ==
  /\ HandlerIdle
  /\ \E cfg \in ConfigsWith(1..MaxFiles), load \in LoadOutcomes :
       LET made == InitializeModel(cfg, load)
       IN /\ config = made.config
          /\ model = made.model
          /\ tokenizer = made.tokenizer
  /\ Started
  /\ disk = {}
  /\ DispatcherIdle
  /\ BatchIdle

NextHttp ==
  \/ H_Receive
  \/ H_Validate
  \/ H_Save
  \/ H_Process
  \/ HB_Validate
  \/ HB_File
  \/ HB_Process
  \/ H_Cleanup
  \/ H_Done

SpecHttp == InitHttp /\ [][NextHttp]_vars

\* ------------------------------------------------------------------------
\* Start-up: ConfigManager (app/utils/config.py) and create_app
\* ------------------------------------------------------------------------

\* the settings of Config the model follows
ConfigKeys ==
  {"use_local", "local_path", "api_key", "pre_enabled", "pre_resize",
   "batch_size", "max_file_size", "port"}

\* Config(): the defaults of the dataclasses
DefaultConfig ==
  [use_local |-> TRUE, local_path |-> DefaultLocalPath, api_key |-> "",
   pre_enabled |-> TRUE, pre_resize |-> TRUE, batch_size |-> DefaultBatchSize,
   max_file_size |-> MaxFileSize, port |-> DefaultPort]

\* a dict with no keys
EmptyData == [k \in {} |-> TRUE]

\* the mappings a configuration file holds: nothing, API mode with and
\* without a key, an empty model path, ports and a size out of range, a key
\* no dataclass knows
ConfigData ==
  {EmptyData,
   [use_local |-> FALSE],
   [use_local |-> FALSE, api_key |-> "key"],
   [local_path |-> ""],
   [port |-> MaxPort + 1],
   [port |-> MinPort - 1],
   [max_file_size |-> 0],
   [bogus |-> TRUE]}

\* the configuration file: absent, not parseable as YAML, YAML whose top
\* level is a list, or a mapping
ConfigFiles ==
  {[kind |-> k, data |-> EmptyData] : k \in {"missing", "invalid_yaml", "not_mapping"}}
    \cup {[kind |-> "mapping", data |-> d] : d \in ConfigData}

\* the environment: the variables of env_mappings that are set, as strings
Environments ==
  {EmptyData,
   [DEEPSEEK_API_KEY |-> "key"],
   [USE_LOCAL_MODEL |-> "False"],
   [USE_LOCAL_MODEL |-> "yes", PORT |-> "8080"],
   [PORT |-> "http"]}

\* env_value.lower() in ("true", "1", "yes") for the strings above
EnvBool(value) == value \in {"true", "True", "1", "yes", "Yes"}

\* int(env_value) for the strings above: the number, or {} for ValueError
EnvInt(value) == IF value = "8080" THEN {8080} ELSE {}

\* ConfigManager._apply_env_overrides on a mapping: a value that does not
\* convert is reported and leaves the setting as the file has it
ApplyEnvOverrides(data, env) ==
  LET key(v) == IF v = "DEEPSEEK_API_KEY" THEN "api_key"
                ELSE IF v = "USE_LOCAL_MODEL" THEN "use_local"
                ELSE "port"
      set == {v \in DOMAIN env : v = "PORT" => EnvInt(env[v]) # {}}
      value(v) == IF v = "DEEPSEEK_API_KEY" THEN env[v]
                  ELSE IF v = "USE_LOCAL_MODEL" THEN EnvBool(env[v])
                  ELSE CHOOSE n \in EnvInt(env[v]) : TRUE
  IN [k \in DOMAIN data \cup {key(v) : v \in set} |->
        IF \E v \in set : key(v) = k
        THEN value(CHOOSE v \in set : key(v) = k)
        ELSE data[k]]

\* ConfigManager._dict_to_config: the defaults, overridden by the mapping
DictToConfig(data) ==
  [k \in ConfigKeys |-> IF k \in DOMAIN data THEN data[k] ELSE DefaultConfig[k]]

\* ConfigManager._validate_config: "" or the message of ConfigurationError
ValidateConfig(cfg) ==
  IF cfg.use_local /\ cfg.local_path = ""
  THEN "Local model path required when use_local is True"
  ELSE IF ~cfg.use_local /\ cfg.api_key = ""
  THEN "DeepSeek API key required when using API"
  ELSE IF cfg.max_file_size <= 0
  THEN "Max file size must be positive"
  ELSE IF ~(MinPort <= cfg.port /\ cfg.port <= MaxPort)
  THEN "Server port must be between 1 and 65535"
  ELSE ""

\* ConfigManager._load_config: whether self.config was assigned, to what,
\* and the ConfigurationError raised ("" when none).  A file that is
\* missing or is not YAML counts as an empty mapping.  A top-level list
\* fails in _apply_env_overrides when a variable is set (any exception but
\* ConfigurationError: the defaults are taken) and in _dict_to_config
\* otherwise, as a mapping with an unknown key does ("Failed to parse
\* configuration")
LoadConfig(file, env) ==
  LET data == ApplyEnvOverrides(file.data, env)
      loaded(cfg) == [assigned |-> TRUE, config |-> cfg, exc |-> ValidateConfig(cfg)]
      failed == [assigned |-> FALSE, config |-> DefaultConfig,
                 exc |-> "Failed to parse configuration"]
  IN IF file.kind = "not_mapping"
     THEN IF env # EmptyData THEN loaded(DefaultConfig) ELSE failed
     ELSE IF ~(DOMAIN data \subseteq ConfigKeys) THEN failed
     ELSE loaded(DictToConfig(data))

\* the first get_config(): ConfigManager() loads the configuration; when
\* the load raises ConfigurationError, no manager is kept and the
\* application does not start
S_GetConfig ==
  /\ s_pc = "boot"
  /\ \E file \in ConfigFiles, env \in Environments :
       LET load == LoadConfig(file, env)
       IN /\ f_call' = [fn |-> "ConfigManager", file |-> file, env |-> env]
          /\ IF load.exc = ""
             THEN /\ cm_config' = {load.config}
                  /\ s_pc' = "configured"
                  /\ f_out' = Returns("manager")
                  /\ UNCHANGED s_exc
             ELSE /\ s_exc' = load.exc
                  /\ s_pc' = "config_error"
                  /\ f_out' = Raises(load.exc)
                  /\ UNCHANGED cm_config
  /\ UNCHANGED <<wvars, s_load, envvars, disk, dvars, bvars, hvars>>

\* create_app: DeepSeekOCR(config) on the object get_config() returned;
\* _initialize_model changes use_local on that very object, and lets no
\* exception out
S_CreateApp ==
  /\ s_pc = "configured"
  /\ \E cfg \in cm_config, load \in LoadOutcomes :
       LET made == InitializeModel(cfg, load)
       IN /\ config' = made.config
          /\ cm_config' = {made.config}
          /\ model' = made.model
          /\ tokenizer' = made.tokenizer
          /\ s_load' = IF cfg.use_local THEN load ELSE "none"
  /\ s_pc' = "running"
  /\ s_exc' = ""
  /\ f_call' = [fn |-> "none"]
  /\ f_out' = Returns("none")
  /\ UNCHANGED <<wvars, disk, dvars, bvars, hvars>>

\* reload_config(): the manager loads again; self.config is assigned
\* before it is validated, and the processor keeps the object it was
\* constructed with
S_ReloadConfig ==
  /\ s_pc = "running"
  /\ d_pc = "idle"
  /\ \E file \in ConfigFiles, env \in Environments :
       LET load == LoadConfig(file, env)
       IN /\ cm_config' = IF load.assigned THEN {load.config} ELSE cm_config
          /\ s_exc' = load.exc
  /\ UNCHANGED <<s_pc, s_load, envvars, disk, dvars, bvars, hvars, fvars, wvars>>

\* extract_text calls on the processor create_app constructed
S_ExtractText ==
  /\ s_pc = "running"
  /\ \/ DirectExtractText
     \/ ExtractTextSteps
     \/ DirectReturn

\* the process starts: nothing is loaded, the image files exist
InitStartup ==
  /\ s_pc = "boot"
  /\ cm_config = {}
  /\ s_exc = ""
  /\ s_load = "none"
  /\ config = DefaultConfig
  /\ model = FALSE
  /\ tokenizer = FALSE
  /\ disk = {"img1"}
  /\ DispatcherIdle
  /\ BatchIdle
  /\ HandlerIdle
  /\ NoCall

NextStartup ==
  \/ S_GetConfig
  \/ S_CreateApp
  \/ S_ReloadConfig
  \/ S_ExtractText

SpecStartup == InitStartup /\ [][NextStartup]_vars

\* ------------------------------------------------------------------------
\* Helper functions called on their own
\* ------------------------------------------------------------------------

\* the files validate_file is called with: every name of UploadFiles and a
\* name without a dot, sizes below, at and above the limit, the type
\* recognised by name, by content, by both or by neither
ValidationFiles ==
  [filename : {f.filename : f \in UploadFiles} \cup {"README"},
   size : {1, MaxFileSize, MaxFileSize + 1},
   mime_ok : BOOLEAN,
   header_ok : BOOLEAN]

\* file.seek(offset) from the start of the stream: the new position
Seek(pos, offset) == offset

\* file.seek(0, 2): the position of the end of the stream
SeekEnd(file) == file.size

\* file.read(n) at position pos: the position after the bytes that were
\* there to read
AfterRead(file, pos, n) ==
  IF pos + n < file.size THEN pos + n ELSE file.size

\* FileValidator._is_valid_size: where it leaves the stream (seek to the
\* end, tell, seek back to the start)
PositionAfterSize(file, pos) == Seek(SeekEnd(file), 0)

\* mutant: the header is read and the stream is not rewound
PositionAfterMimeType_NoRewind(file, pos) ==
  IF file.mime_ok THEN pos
  ELSE AfterRead(file, Seek(pos, 0), HeaderBytes)

\* FileValidator._is_valid_mime_type: where it leaves the stream; the
\* stream is only touched when the name does not give a valid type
PositionAfterMimeType(file, pos) ==
  IF file.mime_ok THEN pos
  ELSE Seek(AfterRead(file, Seek(pos, 0), HeaderBytes), 0)

\* FileValidator.validate_file: where it leaves the stream of a file
\* handed over at position pos, the checks running in the order of
\* ValidateFile
PositionAfterValidate(file, pos) ==
  IF file.filename = "" \/ ~IsAllowedExtension(file.filename) THEN pos
  ELSE IF ~IsValidSize(file) THEN PositionAfterSize(file, pos)
  ELSE PositionAfterMimeType(file, PositionAfterSize(file, pos))

\* file.save(file_path): the bytes from the current position to the end
\* of the stream are written
SavedBytes(file, pos) == file.size - pos

\* file_validator.validate_file(file) on an upload the framework hands
\* over at the start of its stream; the call is recorded with the
\* position it leaves the stream at
F_ValidateFile ==
  /\ NoCall
  /\ \E file \in ValidationFiles :
       /\ f_call' = [fn |-> "validate_file", file |-> file,
                     position |-> PositionAfterValidate(file, 0)]
       /\ f_out' = IF ValidateFile(file) = "ok" THEN Returns(TRUE)
                   ELSE Raises(ValidateFile(file))
  /\ UNCHANGED <<wvars, svars, envvars, disk, dvars, bvars, hvars>>

\* what the model answers to a structure prompt: JSON punctuation, a
\* string "k", a number 1 and blanks
JsonTokens == {"{", "}", "k", ":", "1", ",", " "}

JsonTexts == UNION {[1..n -> JsonTokens] : n \in 0..MaxJsonLen}

\* the JSON scanner skipping whitespace
RECURSIVE SkipWhitespace(_)
SkipWhitespace(s) ==
  IF s # <<>> /\ Head(s) \in Whitespace THEN SkipWhitespace(Tail(s)) ELSE s

\* a parse that raised JSONDecodeError
DecodeError == [ok |-> FALSE, value |-> <<>>, rest |-> <<>>]

Decoded(value, rest) == [ok |-> TRUE, value |-> value, rest |-> rest]

RECURSIVE ParseValue(_)
RECURSIVE ParseMembers(_, _)

\* the members of a JSON object after '{' or ',': "key" : value, then ',' or
\* '}'; a key met again replaces the earlier value
ParseMembers(s, acc) ==
  LET at_key == SkipWhitespace(s)
  IN IF at_key = <<>> \/ Head(at_key) # "k" THEN DecodeError
     ELSE LET at_colon == SkipWhitespace(Tail(at_key))
          IN IF at_colon = <<>> \/ Head(at_colon) # ":" THEN DecodeError
             ELSE LET member == ParseValue(Tail(at_colon))
                      after == SkipWhitespace(member.rest)
                      dict == (Head(at_key) :> member.value) @@ acc
                  IN IF ~member.ok \/ after = <<>> THEN DecodeError
                     ELSE IF Head(after) = "," THEN ParseMembers(Tail(after), dict)
                     ELSE IF Head(after) = "}" THEN Decoded(dict, Tail(after))
                     ELSE DecodeError

\* one JSON value: a number, a string or an object
ParseValue(s) ==
  LET at_value == SkipWhitespace(s)
  IN IF at_value = <<>> THEN DecodeError
     ELSE IF Head(at_value) = "1" THEN Decoded(1, Tail(at_value))
     ELSE IF Head(at_value) = "k" THEN Decoded("k", Tail(at_value))
     ELSE IF Head(at_value) = "{"
          THEN LET inside == SkipWhitespace(Tail(at_value))
               IN IF inside # <<>> /\ Head(inside) = "}"
                  THEN Decoded(<<>>, Tail(inside))
                  ELSE ParseMembers(inside, <<>>)
     ELSE DecodeError

\* json.loads(text): one value, then nothing but whitespace
JsonLoads(text) ==
  LET parsed == ParseValue(text)
  IN IF parsed.ok /\ SkipWhitespace(parsed.rest) = <<>> THEN parsed
     ELSE DecodeError

\* text.strip().startswith('{') and text.strip().endswith('}')
LooksStructured(text) ==
  LET stripped == Strip(text)
  IN /\ stripped # <<>>
     /\ Head(stripped) = "{"
     /\ stripped[Len(stripped)] = "}"

\* an extract_structured_data that trusts the braces and keeps whatever
\* the parser produced
StructuredData_BracesOnly(result) ==
  LET text == result.text
      parsed == JsonLoads(text)
  IN IF LooksStructured(text)
     THEN [k \in DOMAIN result \cup {"structured_data", "is_structured"} |->
             IF k = "structured_data" THEN parsed.value
             ELSE IF k = "is_structured" THEN TRUE
             ELSE result[k]]
     ELSE [k \in DOMAIN result \cup {"is_structured"} |->
             IF k = "is_structured" THEN FALSE ELSE result[k]]

\* extract_structured_data, what it makes of the dict extract_text returned
StructuredData(result) ==
  LET text == result.text
      parsed == JsonLoads(text)
  IN IF LooksStructured(text) /\ parsed.ok
     THEN [k \in DOMAIN result \cup {"structured_data", "is_structured"} |->
             IF k = "structured_data" THEN parsed.value
             ELSE IF k = "is_structured" THEN TRUE
             ELSE result[k]]
     ELSE [k \in DOMAIN result \cup {"is_structured"} |->
             IF k = "is_structured" THEN FALSE ELSE result[k]]

\* ocr.extract_structured_data(image_path, structure_prompt) with the local
\* model answering: extract_text returns the stripped response with its
\* metadata, then the text is examined
F_ExtractStructuredData ==
  /\ NoCall
  /\ Dispatch(config, model, tokenizer) = "local"
  /\ \E response \in JsonTexts :
       LET image == PreprocessedImage(LoadedImage(ImageSize), config)
           result == WithMetadata(LocalResult(response), "img1", image, config)
       IN /\ f_call' = [fn |-> "extract_structured_data", result |-> result]
          /\ f_out' = Returns(StructuredData(result))
  /\ UNCHANGED <<wvars, svars, envvars, disk, dvars, bvars, hvars>>

\* the characters of the paths validate_file_path is called with
PathChars == {".", "/", "u", "f"}

FilePaths == UNION {[1..n -> PathChars] : n \in 0..MaxPathLen}

\* allowed_dirs: the upload folder "./u"
AllowedDirs == << <<".", "/", "u">> >>

\* path.split('/')
RECURSIVE SplitPath(_, _, _)
SplitPath(s, comp, comps) ==
  IF s = <<>> THEN Append(comps, comp)
  ELSE IF Head(s) = "/" THEN SplitPath(Tail(s), <<>>, Append(comps, comp))
  ELSE SplitPath(Tail(s), Append(comp, Head(s)), comps)

\* '/'.join(comps)
RECURSIVE JoinPath(_)
JoinPath(comps) ==
  IF comps = <<>> THEN <<>>
  ELSE IF Len(comps) = 1 THEN comps[1]
  ELSE comps[1] \o <<"/">> \o JoinPath(Tail(comps))

\* how many leading slashes posixpath.normpath keeps: none, one, or two
\* when the path starts with exactly two
InitialSlashes(path) ==
  IF path = <<>> \/ Head(path) # "/" THEN 0
  ELSE IF Len(path) >= 2 /\ path[2] = "/" /\ ~(Len(path) >= 3 /\ path[3] = "/") THEN 2
  ELSE 1

\* the loop of posixpath.normpath over the components: '' and '.' are
\* dropped, '..' removes the component before it, and is kept at the start
\* of a relative path or after another '..'
RECURSIVE NormComps(_, _, _)
NormComps(comps, new_comps, initial_slashes) ==
  IF comps = <<>> THEN new_comps
  ELSE LET comp == Head(comps)
           last == new_comps[Len(new_comps)]
       IN IF comp = <<>> \/ comp = <<".">>
          THEN NormComps(Tail(comps), new_comps, initial_slashes)
          ELSE IF \/ comp # <<".", ".">>
                  \/ (initial_slashes = 0 /\ new_comps = <<>>)
                  \/ (new_comps # <<>> /\ last = <<".", ".">>)
          THEN NormComps(Tail(comps), Append(new_comps, comp), initial_slashes)
          ELSE IF new_comps # <<>>
          THEN NormComps(Tail(comps), SubSeq(new_comps, 1, Len(new_comps) - 1), initial_slashes)
          ELSE NormComps(Tail(comps), new_comps, initial_slashes)

\* os.path.normpath(path) on POSIX
NormPath(path) ==
  LET initial_slashes == InitialSlashes(path)
      joined == JoinPath(NormComps(SplitPath(path, <<>>, <<>>), <<>>, initial_slashes))
      result == [i \in 1..initial_slashes |-> "/"] \o joined
  IN IF result = <<>> THEN <<".">> ELSE result

\* '..' in s
ContainsDotDot(s) ==
  \E i \in 1..(Len(s) - 1) : s[i] = "." /\ s[i + 1] = "."

\* s.startswith(prefix)
StartsWith(s, prefix) ==
  /\ Len(prefix) <= Len(s)
  /\ SubSeq(s, 1, Len(prefix)) = prefix

\* InputValidator.validate_file_path: "ok", or the message of the
\* ValidationError
ValidateFilePath(file_path, allowed_dirs) ==
  LET normalized_path == NormPath(file_path)
  IN IF ContainsDotDot(normalized_path) THEN "Path traversal not allowed"
     ELSE IF \E i \in 1..Len(allowed_dirs) :
               StartsWith(normalized_path, NormPath(allowed_dirs[i]))
     THEN "ok"
     ELSE "File path not in allowed directories"

\* InputValidator.validate_file_path(file_path, allowed_dirs)
F_ValidateFilePath ==
  /\ NoCall
  /\ \E file_path \in FilePaths :
       LET answer == ValidateFilePath(file_path, AllowedDirs)
       IN /\ f_call' = [fn |-> "validate_file_path", file_path |-> file_path,
                        allowed_dirs |-> AllowedDirs]
          /\ f_out' = IF answer = "ok" THEN Returns(TRUE) ELSE Raises(answer)
  /\ UNCHANGED <<wvars, svars, envvars, disk, dvars, bvars, hvars>>

\* the images preprocess_image is called with: smaller than the minimum
\* size in both dimensions or in one, and at least as large
TestImages ==
  [size : {<<100, 100>>, <<500, 400>>, <<MinSize, 800>>, <<2000, 50>>},
   mode : {"RGB"}]

\* image_processor.preprocess_image(image) under the configuration the
\* processor was constructed with
F_PreprocessImage ==
  /\ NoCall
  /\ \E image \in TestImages :
       /\ f_call' = [fn |-> "preprocess_image", image |-> image, config |-> config]
       /\ f_out' = Returns(PreprocessedImage(image, config))
  /\ UNCHANGED <<wvars, svars, envvars, disk, dvars, bvars, hvars>>

\* the characters of a prompt: a letter, a blank, a null byte
PromptChars == {"p", " ", "NUL"}

RawPrompts == UNION {[1..n -> PromptChars] : n \in 0..MaxPromptLen}

\* the max_length arguments, small enough for the prompts to exceed
PromptLimits == {2, 3}

\* InputValidator.validate_prompt(prompt, max_length)
F_ValidatePrompt ==
  /\ NoCall
  /\ \E prompt \in RawPrompts, max_length \in PromptLimits :
       LET checked == ValidatePrompt(prompt, max_length)
       IN /\ f_call' = [fn |-> "validate_prompt", prompt |-> prompt,
                        max_length |-> max_length]
          /\ f_out' = IF checked.ok THEN Returns(checked.value)
                      ELSE Raises("Prompt too long")
  /\ UNCHANGED <<wvars, svars, envvars, disk, dvars, bvars, hvars>>

\* the caller has the answer of the helper and goes on
F_Return ==
  /\ f_call.fn # "none"
  /\ f_call' = [fn |-> "none"]
  /\ f_out' = Returns("none")
  /\ UNCHANGED <<wvars, svars, envvars, disk, dvars, bvars, hvars>>

\* nothing is running; the helper functions are called one after another
InitFunctions == Init

NextFunctions ==
  \/ F_ValidateFile
  \/ F_ExtractStructuredData
  \/ F_ValidateFilePath
  \/ F_PreprocessImage
  \/ F_ValidatePrompt
  \/ F_Return

SpecFunctions == InitFunctions /\ [][NextFunctions]_vars

\* ------------------------------------------------------------------------
\* Upload requests handled concurrently (upload_file of app/main.py and
\* api_ocr of app/api/routes.py, one per worker)
\* ------------------------------------------------------------------------

\* the filenames two clients upload: the same name, or different ones
ConcurrentNames == {"my scan.JPG", "odd.bmp"}

ConcurrentEndpoints == {"/upload", "/api/v1/ocr"}

\* mutant: the upload is saved under its bare filename
UploadPath_BareFilename(uuid, filename) == <<0, SecureFilename(filename)>>

\* os.path.join(folder, f"{uuid.uuid4()}_{secure_filename(file.filename)}")
UploadPath(uuid, filename) == <<uuid, SecureFilename(filename)>>

\* the folder once `writer` has written its upload to `path`, replacing
\* what a file of that name held
Written(folder, path, writer) ==
  [p \in (DOMAIN folder) \cup {path} |->
     IF p = path THEN writer ELSE folder[p]]

\* the folder once `path` has been removed
Removed(folder, path) ==
  [p \in (DOMAIN folder) \ {path} |-> folder[p]]

\* a request with a file that passes validation reaches worker w
W_Receive(w) ==
  /\ w_pc[w] = "idle"
  /\ \E endpoint \in ConcurrentEndpoints, filename \in ConcurrentNames :
       w_req' = [w_req EXCEPT ![w] = [endpoint |-> endpoint,
                                      filename |-> filename]]
  /\ w_pc' = [w_pc EXCEPT ![w] = "save"]
  /\ UNCHANGED <<w_file_path, w_folder, w_uuids, w_read, w_removed>>
  /\ UNCHANGED nonwvars

\* unique_filename with a fresh uuid4, file_path, file.save(file_path); a
\* failing save leaves file_path bound and no file
W_Save(w) ==
  /\ w_pc[w] = "save"
  /\ w_uuids' = w_uuids + 1
  /\ LET file_path == UploadPath(w_uuids + 1, w_req[w].filename)
     IN /\ w_file_path' = [w_file_path EXCEPT ![w] = {file_path}]
        /\ \/ /\ w_folder' = Written(w_folder, file_path, w)
              /\ w_pc' = [w_pc EXCEPT ![w] = "process"]
           \/ /\ w_pc' = [w_pc EXCEPT ![w] = "cleanup"]
              /\ UNCHANGED w_folder
  /\ UNCHANGED <<w_req, w_read, w_removed>>
  /\ UNCHANGED nonwvars

\* ocr_processor.extract_text(file_path, prompt) opens the file at
\* file_path, whatever it holds by now, and returns or raises; /upload
\* then names its result file with another uuid4
W_Process(w) ==
  /\ w_pc[w] = "process"
  /\ w_read' = [w_read EXCEPT ![w] =
                  @ \cup {w_folder[p] : p \in w_file_path[w] \cap DOMAIN w_folder}]
  /\ \E outcome \in {"returned", "raised"} :
       w_uuids' = IF outcome = "returned" /\ w_req[w].endpoint = "/upload"
                  THEN w_uuids + 1 ELSE w_uuids
  /\ w_pc' = [w_pc EXCEPT ![w] = "cleanup"]
  /\ UNCHANGED <<w_req, w_file_path, w_folder, w_removed>>
  /\ UNCHANGED nonwvars

\* the finally block: os.path.exists(file_path)
W_Cleanup(w) ==
  /\ w_pc[w] = "cleanup"
  /\ w_pc' = [w_pc EXCEPT ![w] =
                IF w_file_path[w] \cap DOMAIN w_folder # {} THEN "remove"
                ELSE "answered"]
  /\ UNCHANGED <<w_req, w_file_path, w_folder, w_uuids, w_read, w_removed>>
  /\ UNCHANGED nonwvars

\* the finally block: os.remove(file_path), which deletes the file of that
\* name if there still is one (and raises FileNotFoundError otherwise)
W_Remove(w) ==
  /\ w_pc[w] = "remove"
  /\ LET present == w_file_path[w] \cap DOMAIN w_folder
     IN IF present = {}
        THEN UNCHANGED <<w_folder, w_removed>>
        ELSE \E p \in present :
               /\ w_removed' = [w_removed EXCEPT ![w] = @ \cup {w_folder[p]}]
               /\ w_folder' = Removed(w_folder, p)
  /\ w_pc' = [w_pc EXCEPT ![w] = "answered"]
  /\ UNCHANGED <<w_req, w_file_path, w_uuids, w_read>>
  /\ UNCHANGED nonwvars

\* create_app with the default configuration, no local model loaded; the
\* upload folder is empty and every worker is idle
InitConcurrent ==
  /\ HandlerIdle
  /\ config = DefaultConfig
  /\ model = FALSE
  /\ tokenizer = FALSE
  /\ Started
  /\ disk = {}
  /\ DispatcherIdle
  /\ BatchIdle

NextConcurrent ==
  \/ \E w \in Workers : W_Receive(w)
  \/ \E w \in Workers : W_Save(w)
  \/ \E w \in Workers : W_Process(w)
  \/ \E w \in Workers : W_Cleanup(w)
  \/ \E w \in Workers : W_Remove(w)

SpecConcurrent == InitConcurrent /\ [][NextConcurrent]_vars

\* ------------------------------------------------------------------------
\* Properties of the dispatcher
\* ------------------------------------------------------------------------

Last(seq) == seq[Len(seq)]

Returned == d_pc = "returned"

AttemptedMethods == {attempts[i].method : i \in 1..Len(attempts)}

\* position of a method in the priority order
Rank(method) == CHOOSE i \in 1..Len(MethodOrder) : MethodOrder[i] = method

\* the method tags a step writes into its result
TagsOf(method) ==
  IF method = "deepseek_local" THEN {"deepseek_local"}
  ELSE IF method = "deepseek_api" THEN {"api_limitation", "api_error"}
  ELSE IF method = "easyocr" THEN {"easyocr_fallback"}
  ELSE IF method = "tesseract" THEN {"tesseract_fallback"}
  ELSE {"demo_mode"}

\* the text an engine handed to the dispatcher in an attempt
RawText(a) ==
  IF a.method = "easyocr"
  THEN LET accepted == AcceptedDetections(a.raw)
       IN JoinLines([i \in 1..Len(accepted) |-> accepted[i].text])
  ELSE a.raw

\* an attempt succeeded: the step produced a non-empty text
Succeeded(a) ==
  /\ a.outcome = "returned"
  /\ a.method \in {"deepseek_local", "easyocr", "tesseract"} => Strip(RawText(a)) # <<>>

\* C1: once the image is loaded and an extraction step has been reached,
\* extract_text does not raise: every engine failure leads to the next method
\* and a result is returned.
C1_NeverRaisesPastBoundary ==
  d_pc = "raised" => attempts = <<>>

\* C2: the steps are attempted in the priority order local, API, EasyOCR,
\* Tesseract, placeholder; the returned result is that of the first step that
\* succeeded (non-empty text), and nothing is attempted after a success.
C2_FirstSuccessWins ==
  /\ \A i, j \in 1..Len(attempts) :
       i < j => Rank(attempts[i].method) < Rank(attempts[j].method)
  /\ \A i \in 1..(Len(attempts) - 1) : ~Succeeded(attempts[i])
  /\ Returned =>
       /\ attempts # <<>>
       /\ Succeeded(Last(attempts))
       /\ \A r \in d_result :
            /\ r.method \in TagsOf(Last(attempts).method)
            /\ r.text # <<>>

\* C3: when the API step was taken (no local model, API key configured) the
\* call goes on to the EasyOCR/Tesseract/placeholder chain, and the result
\* returned is never the API step's own notice or error.
C3_ApiAnswerNeverReturned ==
  (Returned /\ "deepseek_api" \in AttemptedMethods) =>
     /\ "easyocr" \in AttemptedMethods
     /\ \A r \in d_result : r.method \notin {"api_limitation", "api_error"}

\* C4: the result returned by extract_text has a confidence in [0,1] and a
\* non-empty text.
C4_ConfidenceRangeNonEmptyText ==
  Returned =>
    \A r \in d_result :
      /\ r.confidence >= 0
      /\ r.confidence <= 1000
      /\ r.text # <<>>

\* no local model loaded, no API key, EasyOCR and Tesseract not installed
NoEngineAvailable ==
  /\ ~(config.use_local /\ model /\ tokenizer)
  /\ config.api_key = ""
  /\ \A i \in 1..Len(attempts) :
       attempts[i].method \in {"easyocr", "tesseract"} =>
         attempts[i].outcome = "import_error"

IsFailureEntry(e) ==
  /\ "success" \in DOMAIN e
  /\ e.success = FALSE
  /\ "error" \in DOMAIN e
  /\ e.text = <<>>

\* an entry of the batch list that is the result extract_text returned
IsResultEntry(e) ==
  /\ "success" \notin DOMAIN e
  /\ "method" \in DOMAIN e
  /\ "confidence" \in DOMAIN e

C6_Entries ==
  /\ Len(b_results) = b_i
  /\ b_pc = "returned" => Len(b_results) = Len(b_paths)
  /\ \A i \in 1..Len(b_results) :
       /\ i <= Len(b_paths)
       /\ b_results[i].image_path = b_paths[i]
       /\ IsFailureEntry(b_results[i]) \/ IsResultEntry(b_results[i])

C6_Step ==
  b_pc = "loop" =>
    /\ b_pc' \in {"loop", "returned"}
    /\ Len(b_results') >= Len(b_results)
    /\ \A i \in 1..Len(b_results) : b_results'[i] = b_results[i]
    /\ (d_caller = "batch" /\ d_pc = "raised" /\ d_pc' = "idle") =>
         /\ Len(b_results') = Len(b_results) + 1
         /\ IsFailureEntry(Last(b_results'))
         /\ Last(b_results').error = d_exc
    /\ (d_caller = "batch" /\ d_pc = "returned" /\ d_pc' = "idle") =>
         /\ Len(b_results') = Len(b_results) + 1
         /\ Last(b_results') \in d_result

C7_TextVerbatim ==
  (Returned /\ Last(attempts).method \in {"deepseek_local", "easyocr", "tesseract"}) =>
     \A r \in d_result : r.text = RawText(Last(attempts))

\* C7 as amended: the returned text equals the engine's output with leading
\* and trailing whitespace removed, and nothing else changed.
C7_TextVerbatimUpToStrip ==
  (Returned /\ Last(attempts).method \in {"deepseek_local", "easyocr", "tesseract"}) =>
     \A r \in d_result : r.text = Strip(RawText(Last(attempts)))

C7_Witness ==
  /\ Returned
  /\ Last(attempts).method = "tesseract"
  /\ Strip(RawText(Last(attempts))) # RawText(Last(attempts))
  /\ \E r \in d_result : r.text = Strip(RawText(Last(attempts)))

\* what one step of the program may do to the record of invoked steps:
\* start it afresh with a new call, or add a step not invoked before
C21_Step ==
  attempts' # attempts =>
    \/ attempts' = <<>>
    \/ /\ Len(attempts') = Len(attempts) + 1
       /\ SubSeq(attempts', 1, Len(attempts)) = attempts
       /\ Last(attempts').method \notin AttemptedMethods

AboveFloor(d) == d.confidence > EasyOCRFloor

\* the EasyOCR step ran to its end in attempt i
EasyOCRRan(i) ==
  /\ attempts[i].method = "easyocr"
  /\ attempts[i].outcome \in {"returned", "no_text"}

\* what EasyOCR's detections lead to, given how the confidence of the
\* result follows from the kept detections
EasyOCRRule(Reported(_, _)) ==
  \A i \in 1..Len(attempts) :
    EasyOCRRan(i) =>
      LET kept == SelectSeq(attempts[i].raw, AboveFloor)
          lines == [k \in 1..Len(kept) |-> kept[k].text]
      IN /\ kept = <<>> =>
              /\ attempts[i].outcome = "no_text"
              /\ i < Len(attempts) => attempts[i + 1].method = "tesseract"
              /\ i = Len(attempts) => d_pc = "tesseract"
         /\ kept # <<>> =>
              /\ attempts[i].outcome = "returned"
              /\ i = Len(attempts)
              /\ d_result # {}
              /\ \A r \in d_result :
                   /\ r.method = "easyocr_fallback"
                   /\ r.segments_found = Len(kept)
                   /\ r.text = Strip(JoinLines(lines))
                   /\ Reported(r.confidence, kept)

ExactAverage(confidence, kept) ==
  confidence * Len(kept) = SumConfidence(kept)

RoundedAverage(confidence, kept) ==
  confidence = Round2(SumConfidence(kept), Len(kept))

\* C22 as stated: the EasyOCR step accepts exactly the detections above
\* the 0.3 floor, in detection order, and reports the average of their
\* confidences; with no detection accepted it yields no result and the
\* Tesseract step is attempted.
C22_EasyOCRAverage == EasyOCRRule(ExactAverage)

\* C22 as amended: the confidence reported is the average of the accepted
\* detections' confidences rounded to two decimals.
C22_EasyOCRRoundedAverage == EasyOCRRule(RoundedAverage)

\* "b" at 0.9 and "a" at 0.456 are both kept, in this order; their average
\* 0.678 is reported as 0.68
C22_Witness ==
  /\ Returned
  /\ Last(attempts).method = "easyocr"
  /\ Len(Last(attempts).raw) = 2
  /\ Last(attempts).raw[1].confidence = 900
  /\ Last(attempts).raw[2].confidence = 456
  /\ \E r \in d_result : r.text = <<"b", "\n", "a">> /\ r.confidence = 680

\* the tags the steps write
EngineTags ==
  {"deepseek_local", "api_limitation", "api_error", "easyocr_fallback",
   "tesseract_fallback", "demo_mode"}

\* the dict has the key 'method', holding one of the engine tags
HasOneTag(r) ==
  /\ "method" \in DOMAIN r
  /\ r.method \in EngineTags

\* C24 as stated: every value returned by extract_text and every entry of
\* the list returned by batch_extract_text has exactly one method tag, taken
\* from the fixed set of engine tags.
C24_EveryResultTagged ==
  /\ Returned => \A r \in d_result : HasOneTag(r)
  /\ \A i \in 1..Len(b_results) : HasOneTag(b_results[i])

\* C24 as amended: every value returned by extract_text, and every entry of
\* the batch list that stands for an item extract_text returned a result
\* for, has exactly one method tag from the fixed set; the entry of a failed
\* item (success false, error) has no method tag.
C24_EveryExtractionTagged ==
  /\ Returned => (d_result # {} /\ \A r \in d_result : HasOneTag(r))
  /\ \A i \in 1..Len(b_results) :
       IF IsFailureEntry(b_results[i])
       THEN "method" \notin DOMAIN b_results[i]
       ELSE HasOneTag(b_results[i])

\* a batch of two: the first item read by EasyOCR, the second failed
C24_Witness ==
  /\ b_pc = "returned"
  /\ Len(b_results) = 2
  /\ HasOneTag(b_results[1])
  /\ b_results[1].method = "easyocr_fallback"
  /\ IsFailureEntry(b_results[2])
  /\ "method" \notin DOMAIN b_results[2]

\* C25: after the dispatcher has been constructed, no sequence of
\* extract_text and batch_extract_text calls changes the model handle, the
\* tokenizer handle or the configuration (in particular use_local): the
\* dispatcher's state is read-only across requests.
C25_DispatcherStateReadOnly ==
  [][config' = config /\ model' = model /\ tokenizer' = tokenizer]_vars

\* a batch of two on the local model: generation raised for the first
\* item and answered for the second, the handles and use_local still set
C25_Witness ==
  /\ b_pc = "returned"
  /\ Len(b_results) = 2
  /\ IsFailureEntry(b_results[1])
  /\ b_results[1].error = "Text extraction failed: Local OCR processing failed"
  /\ "method" \in DOMAIN b_results[2]
  /\ b_results[2].method = "deepseek_local"
  /\ config.use_local /\ model /\ tokenizer

\* only Tesseract is available: no local model and no API key, EasyOCR is
\* not installed, and Tesseract handed back a text that is not blank
OnlyTesseract ==
  /\ Returned
  /\ Len(attempts) = 2
  /\ attempts[1] = Attempt("easyocr", "import_error", <<>>)
  /\ attempts[2].method = "tesseract"
  /\ attempts[2].outcome = "returned"

\* C13 as stated: when only Tesseract is available and it produces the
\* text T, extract_text returns text T, confidence 0.7 and method
\* 'tesseract_fallback'.
C13_TesseractExample ==
  OnlyTesseract =>
    \A r \in d_result :
      /\ r.text = attempts[2].raw
      /\ r.confidence = TesseractConfidence
      /\ r.method = "tesseract_fallback"

\* C13 as amended: the text returned is T without its leading and trailing
\* whitespace (T itself when it has none), with confidence 0.7 and method
\* 'tesseract_fallback'.
C13_TesseractExampleStripped ==
  OnlyTesseract =>
    /\ d_result # {}
    /\ \A r \in d_result :
         /\ r.text = Strip(attempts[2].raw)
         /\ Strip(attempts[2].raw) = attempts[2].raw => r.text = attempts[2].raw
         /\ r.confidence = TesseractConfidence
         /\ r.method = "tesseract_fallback"

\* Tesseract alone produced a text without surrounding whitespace, which
\* came back as it is
C13_Witness ==
  /\ OnlyTesseract
  /\ attempts[2].raw = <<"a", "a">>
  /\ \E r \in d_result : r.text = <<"a", "a">> /\ r.confidence = TesseractConfidence

\* the text names these dimensions: "<width> x <height>"
NamesDimensions(text, size) ==
  \E i \in 1..(Len(text) - 2) :
    /\ text[i] = ToString(size[1])
    /\ text[i + 1] = " x "
    /\ text[i + 2] = ToString(size[2])

\* C14: with zero engines available, extracting from a 100x100 image
\* returns the placeholder result (confidence 0.0, method demo_mode) whose
\* text contains '100 x 100': the diagnostic reports the dimensions of the
\* image that was submitted.
C14_PlaceholderReportsSubmittedSize ==
  (Returned /\ NoEngineAvailable) =>
    /\ d_result # {}
    /\ \A r \in d_result :
         /\ r.method = "demo_mode"
         /\ r.confidence = ZeroConfidence
         /\ NamesDimensions(r.text, ImageSize)

\* ------------------------------------------------------------------------
\* Properties of the HTTP endpoints
\* ------------------------------------------------------------------------

Answered == h_pc = "answered"

StatusOf(response) == {r.status : r \in response}

\* C8: once a request to /upload, /batch_upload, /api/v1/ocr,
\* /api/v1/ocr/batch or /api/v1/ocr/structured has been answered, whether
\* OCR completed or failed, every upload the request saved to the upload
\* folder has been deleted (the delete call succeeding).
C8_UploadsDeletedOnceAnswered ==
  Answered => h_saved \cap disk = {}

\* a batch request that saved two uploads, ran OCR on both and was answered
\* with a server error, both uploads being gone
C8_Witness ==
  /\ Answered
  /\ req.endpoint = "/batch_upload"
  /\ Cardinality(h_saved) = 2
  /\ h_ocr_calls = 2
  /\ StatusOf(h_response) = {500}
  /\ h_saved \cap disk = {}

\* what the claim calls rejected by validation at a single-file endpoint:
\* no file, empty filename, disallowed or oversized or unrecognised file,
\* missing structure_prompt, over-long prompt
RejectedByValidation(r) ==
  LET structured == r.endpoint = "/api/v1/ocr/structured"
      text == PromptText(IF structured THEN r.structure_prompt ELSE r.prompt)
      max_length == IF structured THEN StructurePromptMaxLength
                    ELSE PromptMaxLength
  IN \/ r.files = <<>>
     \/ /\ r.files # <<>>
        /\ \/ r.files[1].filename = ""
           \/ ValidateFile(r.files[1]) # "ok"
     \/ structured /\ text = <<>>
     \/ Len(Strip(text)) > max_length

\* C9: at /upload, /api/v1/ocr and /api/v1/ocr/structured a request
\* rejected by validation (no file, empty filename, disallowed or oversized
\* file, over-long prompt, missing structure_prompt) is answered with
\* status 400, nothing having been written to the upload folder and no OCR
\* engine having been invoked.
C9_ValidationRejectedWith400 ==
  (Answered /\ req.endpoint \in SingleEndpoints /\ RejectedByValidation(req))
    => /\ StatusOf(h_response) = {400}
       /\ h_saved = {}
       /\ h_ocr_calls = 0

\* C10: at /batch_upload and /api/v1/ocr/batch a request with no files, or
\* with more files than the configured batch size cap, is answered with
\* status 400 and an error message ('No files provided' for no files), and
\* no file is saved or processed.  (Stated for the requests whose form the
\* framework parsed.)
C10_BatchRejectedWith400 ==
  (/\ Answered
   /\ req.endpoint \in BatchEndpoints
   /\ ~req.limit_enforced
   /\ Len(req.files) = 0 \/ Len(req.files) > config.batch_size)
    => /\ StatusOf(h_response) = {400}
       /\ \A r \in h_response :
            /\ r.error # ""
            /\ req.files = <<>> => r.error = "No files provided"
       /\ h_saved = {}
       /\ h_ocr_calls = 0

\* the prompt field of the request: prompt, or structure_prompt at the
\* structured endpoint
PromptField(r) ==
  IF r.endpoint = "/api/v1/ocr/structured" THEN r.structure_prompt ELSE r.prompt

\* C23: when a local model is loaded, generation runs with the caller's
\* prompt, and with the default extraction prompt whenever the caller
\* supplied none, also for an HTTP request without a prompt field.
C23_DefaultPromptWhenAbsent ==
  (f_call.fn = "extract_text" /\ f_call.step = "local") =>
     f_call.step_prompt = (IF PromptField(req) = "none" THEN DefaultPrompt
                           ELSE h_prompt)

\* C27: in every 200 response of /batch_upload and /api/v1/ocr/batch the
\* results list has exactly one entry per uploaded file and
\* processed_files + failed_files = total_files, whatever the mix of valid
\* files, invalid files, empty-filename parts and per-item OCR failures.
C27_BatchCountsAddUp ==
  req.endpoint \in BatchEndpoints =>
    \A r \in h_response :
      r.status = 200 =>
        /\ Len(r.results) = Len(req.files)
        /\ r.processed_files + r.failed_files = r.total_files

\* C28: when several upload requests are handled concurrently, in any
\* interleaving and also when they upload files of the same filename, each
\* request saves its upload under a path of its own and opens and deletes
\* only its own file; no request processes or deletes a file another
\* request saved.
C28_ConcurrentUploadsIsolated ==
  /\ \A v, w \in Workers :
       v # w => w_file_path[v] \cap w_file_path[w] = {}
  /\ \A w \in Workers :
       /\ w_read[w] \subseteq {w}
       /\ w_removed[w] \subseteq {w}
       /\ \A p \in w_file_path[w] \cap DOMAIN w_folder : w_folder[p] = w

\* two requests with the same filename in flight together: both uploads
\* are saved before either is processed, both are processed, the first
\* request has deleted its file and the second is about to
C28_Witness ==
  /\ w_req[1].filename = w_req[2].filename
  /\ w_read[1] = {1}
  /\ w_read[2] = {2}
  /\ w_removed[1] = {1}
  /\ w_pc[2] = "remove"
  /\ \E p \in w_file_path[2] : p \in DOMAIN w_folder /\ w_folder[p] = 2

\* ------------------------------------------------------------------------
\* Properties of start-up
\* ------------------------------------------------------------------------

\* the local model load of this run failed
LoadFailed == s_load \in LoadOutcomes \ {"ok"}

C12_MissingPathRaises ==
  s_load = "path_missing" =>
    /\ s_pc # "running"
    /\ s_exc = "Model path not found"

\* C17: creating a ConfigManager on a configuration file whose content is
\* invalid YAML raises ConfigurationError.
C17_InvalidYamlRaises ==
  (f_call.fn = "ConfigManager" /\ f_call.file.kind = "invalid_yaml") =>
    f_out.raised

\* the four rules of _validate_config
SatisfiesRules(cfg) ==
  /\ cfg.use_local => cfg.local_path # ""
  /\ ~cfg.use_local => cfg.api_key # ""
  /\ cfg.max_file_size > 0
  /\ MinPort <= cfg.port /\ cfg.port <= MaxPort

\* C18: a configuration that violates the validation rules is never in
\* effect: loading one raises ConfigurationError, and in every reachable
\* state the configuration get_config() returns satisfies the four rules
\* (model path when use_local, API key when not, positive max_file_size,
\* port within 1..65535).
C18_InvalidConfigNeverInEffect ==
  /\ (f_call.fn = "ConfigManager" /\ ~f_out.raised) =>
       \A cfg \in cm_config : SatisfiesRules(cfg)
  /\ \A cfg \in cm_config : SatisfiesRules(cfg)

\* C26: reload_config is atomic on failure: when a reload raises
\* ConfigurationError, the configuration the manager held before the reload
\* remains in effect and get_config() keeps returning the previous values.
C26_ReloadAtomicOnFailure ==
  [][(s_pc = "running" /\ s_exc' # "") => cm_config' = cm_config]_vars

\* ------------------------------------------------------------------------
\* Properties of the helper functions
\* ------------------------------------------------------------------------

ReturnedTrue == ~f_out.raised /\ f_out.value = TRUE

RaisedMessage(message) == f_out.raised /\ f_out.value = message

\* C15: validate_file returns True exactly when the file has a non-empty
\* filename, its extension, compared case-insensitively, is in the allowed
\* set, its size is at most max_file_size and its type is a valid
\* image/PDF type; otherwise it raises ValidationError for the first
\* failing check in the order: no file, extension, size, type.
C15_ValidateFile ==
  f_call.fn = "validate_file" =>
    LET file == f_call.file
        named == file.filename # ""
        extension == Lower(Extension(file.filename)) \in AllowedExtensions
        size == file.size <= MaxFileSize
        type == file.mime_ok \/ file.header_ok
    IN /\ ReturnedTrue <=> (named /\ extension /\ size /\ type)
       /\ ~named => RaisedMessage("No file provided")
       /\ (named /\ ~extension) => RaisedMessage("File type not allowed")
       /\ (named /\ extension /\ ~size) => RaisedMessage("File too large")
       /\ (named /\ extension /\ size /\ ~type) => RaisedMessage("Invalid file type")

\* a text file above the size limit is refused for its extension
C15_Witness ==
  /\ f_call.fn = "validate_file"
  /\ f_call.file.filename = "notes.txt"
  /\ f_call.file.size > MaxFileSize
  /\ RaisedMessage("File type not allowed")

HasTraversalComponent(path) ==
  LET comps == SplitPath(path, <<>>, <<>>)
  IN \E i \in 1..Len(comps) : comps[i] = <<".", ".">>

\* the path, resolved component by component, is a directory of dirs or
\* lies below one
InsideAllowed(path, dirs) ==
  LET resolved == NormComps(SplitPath(path, <<>>, <<>>), <<>>, InitialSlashes(path))
  IN \E i \in 1..Len(dirs) :
       LET dir == NormComps(SplitPath(dirs[i], <<>>, <<>>), <<>>, InitialSlashes(dirs[i]))
       IN /\ InitialSlashes(path) = InitialSlashes(dirs[i])
          /\ Len(dir) <= Len(resolved)
          /\ SubSeq(resolved, 1, Len(dir)) = dir

\* C19: validate_file_path returns True only for a path inside one of the
\* allowed directories; every path with a '..' traversal component is
\* rejected with 'Path traversal not allowed', and every other path outside
\* the allowed directories with 'File path not in allowed directories'.
C19_PathValidation ==
  f_call.fn = "validate_file_path" =>
    LET path == f_call.file_path
        dirs == f_call.allowed_dirs
    IN /\ ReturnedTrue => InsideAllowed(path, dirs)
       /\ HasTraversalComponent(path) => RaisedMessage("Path traversal not allowed")
       /\ (~HasTraversalComponent(path) /\ ~InsideAllowed(path, dirs)) =>
            RaisedMessage("File path not in allowed directories")

\* C20: when preprocessing.enabled is false, preprocess_image returns the
\* original image unchanged, whatever the resize, denoise and
\* enhance_contrast flags are.
C20_DisabledPreprocessingKeepsImage ==
  (f_call.fn = "preprocess_image" /\ ~f_call.config.pre_enabled) =>
    /\ ~f_out.raised
    /\ f_out.value = f_call.image

\* C29: whenever validate_file returns True it leaves the uploaded file's
\* read position at the start (offset 0), so the save that follows
\* validation writes the complete file content.
C29_ValidatedFileRewound ==
  (f_call.fn = "validate_file" /\ ReturnedTrue) =>
     /\ f_call.position = 0
     /\ SavedBytes(f_call.file, f_call.position) = f_call.file.size

\* a file of the largest size whose type is only recognised by its first
\* bytes: the size was measured, the header was read, the stream is back
\* at the start
C29_Witness ==
  /\ f_call.fn = "validate_file"
  /\ ReturnedTrue
  /\ ~f_call.file.mime_ok
  /\ f_call.file.header_ok
  /\ f_call.file.size = MaxFileSize
  /\ f_call.position = 0

\* C30: validate_prompt returns a fully cleaned prompt and is idempotent:
\* for every prompt it accepts, the returned string has no null byte and
\* no leading or trailing whitespace and is at most max_length long, so
\* validating its own output returns that output unchanged; a prompt whose
\* stripped length exceeds max_length raises ValidationError.
C30_ValidatePromptCleansAndIsIdempotent ==
  f_call.fn = "validate_prompt" =>
    LET prompt == f_call.prompt
        max_length == f_call.max_length
    IN /\ Len(Strip(prompt)) > max_length => RaisedMessage("Prompt too long")
       /\ ~f_out.raised =>
            LET cleaned == f_out.value
            IN /\ \A i \in 1..Len(cleaned) : cleaned[i] # "NUL"
               /\ Strip(cleaned) = cleaned
               /\ Len(cleaned) <= max_length
               /\ ValidatePrompt(cleaned, max_length) =
                    [ok |-> TRUE, value |-> cleaned]

====
